---------------------------- MODULE Spec2Model ----------------------------
(***************************************************************************)
(* A model of the viewer theme asset pipeline:                             *)
(*   scripts/generate-viewer-industrial-theme-assets.py  (the generator)   *)
(*   scripts/validate-viewer-theme-pack.py               (the validator)   *)
(*                                                                         *)
(* Lengths are fixed-point integers in units of 0.001 (0.56 is 560), and   *)
(* scale factors are per-mille.  math.sin / math.cos are the rational      *)
(* Bhaskara approximation scaled by 1000.  A mesh is a record of a vertex  *)
(* sequence and an index sequence, as MeshData is; Python's 0-based        *)
(* indices are kept as values, TLA+ sequences are addressed 1-based.       *)
(***************************************************************************)
EXTENDS Integers, Sequences, FiniteSets, TLC

VARIABLES
    parts,   \* the MeshData objects built so far, in creation order
    call,    \* the last geometry call: its name, arguments and result
    nxf,     \* how many transform_mesh calls were made
    nbuilt,  \* how many component meshes were created
    noise,   \* the last hash_noise call: its arguments and result
    fs,      \* the theme directory: path |-> content, for the paths that exist
    out,     \* the result of the last read-side call on the present files
    wrote,   \* the last completed write_png / write_gltf call and what it wrote
    nedits   \* how many times the files were changed

meshVars == <<parts, call, nxf, nbuilt>>
noiseVars == <<noise>>
fileVars == <<fs, out, wrote, nedits>>
vars == <<parts, call, nxf, nbuilt, noise, fs, out, wrote, nedits>>

\* what the geometry calls, the noise function, the file operations leave alone
notMeshVars == <<noise, fs, out, wrote, nedits>>
notNoiseVars == <<parts, call, nxf, nbuilt, fs, out, wrote, nedits>>
notFileVars == <<parts, call, nxf, nbuilt, noise>>

-----------------------------------------------------------------------------
(* Bounds of the model *)

MaxSegments == 3     \* build_uv_sphere: segments_u, segments_v in 1..MaxSegments
MaxSides == 4        \* build_prism: sides in 1..MaxSides
MaxBuilds == 3       \* component meshes created in one behaviour
MaxTransforms == 1   \* transform_mesh calls in one behaviour
MaxDim == 2          \* write_png: width, height in 0..MaxDim (and two wide, empty images)
MaxCorruptions == 1  \* truncations / byte changes applied to a written PNG
MaxEdits == 2        \* files put into a theme directory by hand
MaxExports == 1      \* write_gltf calls begun step by step in one behaviour

-----------------------------------------------------------------------------
(* Generic helpers *)

RECURSIVE SumSeq(_)
SumSeq(s) == IF s = <<>> THEN 0 ELSE Head(s) + SumSeq(Tail(s))

Abs(n) == IF n < 0 THEN -n ELSE n

\* the element of a set of one element.  Only({ e(x) : x \in {v} }) is e(v)
\* with v computed once, however often e uses it
Only(S) == CHOOSE x \in S : TRUE

\* a sequence given by a rule, with its elements computed
AsList(f) == f \o <<>>

\* n * permille / 1000, rounded toward zero: fixed-point multiplication
MulMilli(n, permille) ==
    LET p == n * permille
    IN  IF p < 0 THEN -((-p) \div 1000) ELSE p \div 1000

\* sin(pi * p / q) * 1000 for 0 <= p <= q (Bhaskara I)
SinPiUnit(p, q) == (16000 * p * (q - p)) \div (5 * q * q - 4 * p * (q - p))

\* sin(pi * p / q) * 1000 for any p >= 0, q > 0
SinPi(p, q) ==
    LET r == p % (2 * q)
    IN  IF r <= q THEN SinPiUnit(r, q) ELSE -SinPiUnit(r - q, q)

\* cos(pi * p / q) * 1000 = sin(pi * (2p + q) / (2q)) * 1000
CosPi(p, q) == SinPi(2 * p + q, 2 * q)

MeshData(vertices, indices) == [vertices |-> vertices, indices |-> indices]

-----------------------------------------------------------------------------
(* Mesh composition *)

transform_mesh(mesh, scale, translate) ==
    MeshData(
        [k \in 1..Len(mesh.vertices) |->
            LET v == mesh.vertices[k]
            IN  << MulMilli(v[1], scale[1]) + translate[1],
                   MulMilli(v[2], scale[2]) + translate[2],
                   MulMilli(v[3], scale[3]) + translate[3] >>],
        mesh.indices)

\* the loop of merge_meshes from mesh number i on, with the accumulators
RECURSIVE merge_loop(_, _, _, _, _)
\* bug: the indices are concatenated without adding the vertex offset
merge_loop_no_rebase(meshes, i, vertices, indices, offset) ==
    IF i > Len(meshes) THEN MeshData(vertices, indices)
    ELSE LET mesh == meshes[i]
         IN  merge_loop(meshes, i + 1,
                 vertices \o mesh.vertices,
                 indices \o mesh.indices,
                 offset + Len(mesh.vertices))

merge_loop(meshes, i, vertices, indices, offset) ==
    IF i > Len(meshes) THEN MeshData(vertices, indices)
    ELSE LET mesh == meshes[i]
         IN  merge_loop(meshes, i + 1,
                 vertices \o mesh.vertices,
                 indices \o [k \in 1..Len(mesh.indices) |-> offset + mesh.indices[k]],
                 offset + Len(mesh.vertices))

merge_meshes(meshes) == merge_loop(meshes, 1, <<>>, <<>>, 0)

-----------------------------------------------------------------------------
(* Primitive builders *)

build_box(size) ==
    LET hx == size[1] \div 2
        hy == size[2] \div 2
        hz == size[3] \div 2
    IN  MeshData(
            << <<-hx, -hy, -hz>>, <<hx, -hy, -hz>>, <<hx, hy, -hz>>, <<-hx, hy, -hz>>,
               <<-hx, -hy, hz>>, <<hx, -hy, hz>>, <<hx, hy, hz>>, <<-hx, hy, hz>> >>,
            << 0, 1, 2, 0, 2, 3,
               4, 6, 5, 4, 7, 6,
               0, 4, 5, 0, 5, 1,
               3, 2, 6, 3, 6, 7,
               0, 3, 7, 0, 7, 4,
               1, 5, 6, 1, 6, 2 >>)

build_octahedron(radius) ==
    MeshData(
        << <<0, radius, 0>>, <<-radius, 0, 0>>, <<0, 0, radius>>,
           <<radius, 0, 0>>, <<0, 0, -radius>>, <<0, -radius, 0>> >>,
        << 0, 1, 2,
           0, 2, 3,
           0, 3, 4,
           0, 4, 1,
           5, 2, 1,
           5, 3, 2,
           5, 4, 3,
           5, 1, 4 >>)

\* the vertex of the latitude/longitude grid at row y, column x
sphere_vertex(radius, segments_u, segments_v, y, x) ==
    LET sinphi == SinPi(y, segments_v)
        cosphi == CosPi(y, segments_v)
        sinth == SinPi(2 * x, segments_u)
        costh == CosPi(2 * x, segments_u)
    IN  << MulMilli(MulMilli(radius, sinphi), costh),
           MulMilli(radius, cosphi),
           MulMilli(MulMilli(radius, sinphi), sinth) >>

\* bug: the rows stop at range(segments_v), losing the last latitude row
sphere_vertex_loop_short(radius, segments_u, segments_v) ==
    [k \in 1..(segments_v * (segments_u + 1)) |->
        sphere_vertex(radius, segments_u, segments_v,
                      (k - 1) \div (segments_u + 1), (k - 1) % (segments_u + 1))]

\* the vertex loop: for y in range(segments_v + 1): for x in range(segments_u + 1);
\* the k-th vertex appended is that of row (k - 1) div (segments_u + 1)
sphere_vertex_loop(radius, segments_u, segments_v) ==
    [k \in 1..((segments_v + 1) * (segments_u + 1)) |->
        sphere_vertex(radius, segments_u, segments_v,
                      (k - 1) \div (segments_u + 1), (k - 1) % (segments_u + 1))]

\* the index loop: for y in range(segments_v): for x in range(segments_u);
\* the q-th quad visited is (y, x) = (q div segments_u, q mod segments_u)
sphere_index_loop(segments_u, segments_v) ==
    [k \in 1..(6 * segments_u * segments_v) |->
        LET q == (k - 1) \div 6
            y == q \div segments_u
            x == q % segments_u
            row == segments_u + 1
            a == y * row + x
            b == a + 1
            c == a + row
            d == c + 1
        IN  <<a, c, b, b, c, d>>[((k - 1) % 6) + 1]]

build_uv_sphere(radius, segments_u, segments_v) ==
    MeshData(sphere_vertex_loop(radius, segments_u, segments_v),
             sphere_index_loop(segments_u, segments_v))

\* the ring loop of build_prism: two vertices per side
RECURSIVE prism_vertex_loop(_, _, _, _, _)
prism_vertex_loop(radius, half_h, sides, i, vertices) ==
    IF i >= sides \/ Len(vertices) < 0 THEN vertices
    ELSE LET x == MulMilli(CosPi(2 * i, sides), radius)
             z == MulMilli(SinPi(2 * i, sides), radius)
         IN  prism_vertex_loop(radius, half_h, sides, i + 1,
                 vertices \o << <<x, half_h, z>>, <<x, -half_h, z>> >>)

\* bug: the barrel quad is emitted as a single triangle
prism_side_half_quad(sides, i) ==
    LET top_center == 0
        bottom_center == 1
        ni == (i + 1) % sides
        top_i == 2 + i * 2
        bot_i == top_i + 1
        top_n == 2 + ni * 2
        bot_n == top_n + 1
    IN  <<top_center, top_n, top_i>>
        \o <<bottom_center, bot_i, bot_n>>
        \o <<top_i, top_n, bot_i>>

\* the triangles one side of build_prism adds: top cap, bottom cap, barrel quad
prism_side(sides, i) ==
    LET top_center == 0
        bottom_center == 1
        ni == (i + 1) % sides
        top_i == 2 + i * 2
        bot_i == top_i + 1
        top_n == 2 + ni * 2
        bot_n == top_n + 1
    IN  <<top_center, top_n, top_i>>
        \o <<bottom_center, bot_i, bot_n>>
        \o <<top_i, top_n, bot_i, bot_i, top_n, bot_n>>

\* bug: the side loop runs once more than there are sides
RECURSIVE prism_index_loop_one_more(_, _, _)
prism_index_loop_one_more(sides, i, indices) ==
    IF i > sides \/ Len(indices) < 0 THEN indices
    ELSE prism_index_loop_one_more(sides, i + 1, indices \o prism_side(sides, i))

RECURSIVE prism_index_loop(_, _, _)
prism_index_loop(sides, i, indices) ==
    IF i >= sides \/ Len(indices) < 0 THEN indices
    ELSE prism_index_loop(sides, i + 1, indices \o prism_side(sides, i))

build_prism(radius, height, sides) ==
    LET half_h == height \div 2
    IN  MeshData(
            prism_vertex_loop(radius, half_h, sides, 0,
                << <<0, half_h, 0>>, <<0, -half_h, 0>> >>),
            prism_index_loop(sides, 0, <<>>))

-----------------------------------------------------------------------------
(* The primitive builders as actions: each call replaces the mesh at hand   *)
(* and records its name, arguments and result                               *)

\* argument values, taken from the calls generate_meshes makes
BoxSizes == { <<950, 600, 950>>, <<780, 220, 780>> }
Radii == { 560, 160, 220, 460, 430, 1050 }
Heights == { 550, 1220, 720, 1300 }

Called(fn, args, ret) == [fn |-> fn, args |-> args, ret |-> ret]

BuildBox ==
    /\ \E size \in BoxSizes :
          LET m == build_box(size)
          IN  /\ parts' = <<m>>
              /\ call' = Called("build_box", <<size>>, m)
    /\ UNCHANGED <<nxf, nbuilt, notMeshVars>>

BuildOctahedron ==
    /\ \E radius \in Radii :
          LET m == build_octahedron(radius)
          IN  /\ parts' = <<m>>
              /\ call' = Called("build_octahedron", <<radius>>, m)
    /\ UNCHANGED <<nxf, nbuilt, notMeshVars>>

BuildUvSphere ==
    /\ \E radius \in Radii, segments_u \in 1..MaxSegments, segments_v \in 1..MaxSegments :
          LET m == build_uv_sphere(radius, segments_u, segments_v)
          IN  /\ parts' = <<m>>
              /\ call' = Called("build_uv_sphere", <<radius, segments_u, segments_v>>, m)
    /\ UNCHANGED <<nxf, nbuilt, notMeshVars>>

BuildPrism ==
    /\ \E radius \in Radii, height \in Heights, sides \in 1..MaxSides :
          LET m == build_prism(radius, height, sides)
          IN  /\ parts' = <<m>>
              /\ call' = Called("build_prism", <<radius, height, sides>>, m)
    /\ UNCHANGED <<nxf, nbuilt, notMeshVars>>

\* nothing built yet
MeshIdle ==
    /\ parts = <<>>
    /\ call = Called("none", <<>>, MeshData(<<>>, <<>>))
    /\ nxf = 0
    /\ nbuilt = 0

\* no hash_noise call made yet
NoiseIdle == noise = [x |-> 0, y |-> 0, seed |-> 0, ret |-> [num |-> <<0, 0>>, den |-> <<1, 0>>], made |-> FALSE]

\* an empty theme directory, nothing read or written
FilesIdle ==
    /\ fs = <<>>
    /\ out = [fn |-> "none"]
    /\ wrote = [fn |-> "none"]
    /\ nedits = 0

MeshInit == MeshIdle /\ NoiseIdle /\ FilesIdle

BuildNext ==
    \/ BuildBox
    \/ BuildOctahedron
    \/ BuildUvSphere
    \/ BuildPrism

SpecBuild == MeshInit /\ [][BuildNext]_vars

-----------------------------------------------------------------------------
(* Mesh composition as generate_meshes does it: components are built,       *)
(* placed with transform_mesh and merged                                    *)

\* the component calls generate_meshes makes for the agent mesh
Components ==
    { build_octahedron(560),
      build_prism(160, 550, 6) }

\* the (scale, translate) pairs generate_meshes passes to transform_mesh
Placements == { << <<1000, 1000, 1000>>, <<0, 540, 0>> >>,
                << <<1000, 440, 1000>>, <<0, -650, 0>> >> }

\* meshes that no builder made: one with a repeated vertex, an empty one,
\* and one that breaks "every index < vertex count"
RawMeshes ==
    { MeshData(<< <<0, 0, 0>>, <<0, 0, 0>>, <<0, 1000, 0>> >>, <<2, 1, 0, 0, 1, 2>>),
      MeshData(<<>>, <<>>),
      MeshData(<< <<0, 0, 0>>, <<1000, 0, 0>> >>, <<0, 1, 2>>) }

AddComponent ==
    /\ nbuilt < MaxBuilds
    /\ \E m \in Components :
          /\ parts' = Append(parts, m)
          /\ call' = Called("component", <<>>, m)
    /\ nbuilt' = nbuilt + 1
    /\ UNCHANGED <<nxf, notMeshVars>>

LoadMesh ==
    /\ nbuilt < MaxBuilds
    /\ \E m \in RawMeshes :
          /\ parts' = Append(parts, m)
          /\ call' = Called("load", <<>>, m)
    /\ nbuilt' = nbuilt + 1
    /\ UNCHANGED <<nxf, notMeshVars>>

Transform ==
    /\ nxf < MaxTransforms
    /\ \E i \in 1..Len(parts), p \in Placements :
          LET m == transform_mesh(parts[i], p[1], p[2])
          IN  /\ parts' = [parts EXCEPT ![i] = m]
              /\ call' = Called("transform_mesh", <<parts[i], p[1], p[2]>>, m)
    /\ nxf' = nxf + 1
    /\ UNCHANGED <<nbuilt, notMeshVars>>

Merge ==
    /\ LET m == merge_meshes(parts)
       IN  /\ parts' = <<m>>
           /\ call' = Called("merge_meshes", <<parts>>, m)
    /\ UNCHANGED <<nxf, nbuilt, notMeshVars>>

MeshNext ==
    \/ AddComponent
    \/ LoadMesh
    \/ Transform
    \/ Merge

SpecMesh == MeshInit /\ [][MeshNext]_vars

-----
(* Properties of the geometry calls *)

\* the Mesh invariant's index part: every index is in 0 .. vertex count - 1
IndexInRange(mesh) ==
    \A k \in 1..Len(mesh.indices) :
        /\ mesh.indices[k] >= 0
        /\ mesh.indices[k] < Len(mesh.vertices)

\* vertices (indices) contributed by the components before component i
VertexOffset(meshes, i) == SumSeq([j \in 1..(i - 1) |-> Len(meshes[j].vertices)])
IndexOffset(meshes, i) == SumSeq([j \in 1..(i - 1) |-> Len(meshes[j].indices)])

\* C1: when merge_meshes is given meshes that each keep every index below
\* their own vertex count, the result's vertices are the components' vertices
\* concatenated in argument order (so their number is the sum), its indices
\* are the components' indices in order, each raised by the number of
\* vertices of the components before it (so their number is the sum), and
\* every index of the result is below the merged vertex count.
C1_MergeContract ==
    (call.fn = "merge_meshes" /\ \A i \in 1..Len(call.args[1]) : IndexInRange(call.args[1][i]))
    => LET meshes == call.args[1]
           merged == call.ret
           n == Len(meshes)
       IN  /\ Len(merged.vertices) = VertexOffset(meshes, n + 1)
           /\ Len(merged.indices) = IndexOffset(meshes, n + 1)
           /\ \A i \in 1..n :
                 /\ \A k \in 1..Len(meshes[i].vertices) :
                       merged.vertices[VertexOffset(meshes, i) + k] = meshes[i].vertices[k]
                 /\ \A k \in 1..Len(meshes[i].indices) :
                       merged.indices[IndexOffset(meshes, i) + k]
                           = meshes[i].indices[k] + VertexOffset(meshes, i)
           /\ IndexInRange(merged)

\* a merge of two non-empty valid meshes: the second one's indices move
C1_Witness ==
    /\ call.fn = "merge_meshes"
    /\ Len(call.args[1]) = 2
    /\ \A i \in 1..2 :
          /\ IndexInRange(call.args[1][i])
          /\ Len(call.args[1][i].indices) > 0
    /\ call.args[1][1] # call.args[1][2]
    /\ parts = <<call.ret>>

\* C2 as written: build_prism(radius, height, sides) has 2 + 2*sides vertices
\* and 9*sides indices.
C2_PrismCounts_AsClaimed ==
    call.fn = "build_prism"
    => /\ Len(call.ret.vertices) = 2 + 2 * call.args[3]
       /\ Len(call.ret.indices) = 9 * call.args[3]

\* C2 amended: build_prism(radius, height, sides), sides >= 1, has
\* 2 + 2*sides vertices and 12*sides indices (per side one top-cap triangle,
\* one bottom-cap triangle and a barrel quad of two triangles).
C2_PrismCounts ==
    call.fn = "build_prism"
    => /\ Len(call.ret.vertices) = 2 + 2 * call.args[3]
       /\ Len(call.ret.indices) = 12 * call.args[3]

C2_Witness ==
    /\ call.fn = "build_prism"
    /\ call.args[3] = MaxSides
    /\ parts = <<call.ret>>

\* C3: build_box returns 8 vertices and 36 indices, build_octahedron 6
\* vertices and 24 indices, and build_uv_sphere(radius, segments_u,
\* segments_v) (segments_v + 1) * (segments_u + 1) vertices and
\* 6 * segments_u * segments_v indices.
C3_PrimitiveCounts ==
    /\ call.fn = "build_box"
       => Len(call.ret.vertices) = 8 /\ Len(call.ret.indices) = 36
    /\ call.fn = "build_octahedron"
       => Len(call.ret.vertices) = 6 /\ Len(call.ret.indices) = 24
    /\ call.fn = "build_uv_sphere"
       => /\ Len(call.ret.vertices) = (call.args[3] + 1) * (call.args[2] + 1)
          /\ Len(call.ret.indices) = 6 * call.args[2] * call.args[3]

\* a sphere whose two segment counts differ
C3_Witness ==
    /\ call.fn = "build_uv_sphere"
    /\ call.args[2] = MaxSegments
    /\ call.args[3] = 1
    /\ parts = <<call.ret>>

-----------------------------------------------------------------------------
(* hash_noise.  A 32-bit value is a pair <<hi, lo>> of 16-bit halves; the   *)
(* arithmetic below is arithmetic modulo 2^32 on such pairs.  Python        *)
(* computes the products and the xor on unbounded integers and then masks   *)
(* with 0xFFFFFFFF; the low 32 bits of a product and of a xor depend only   *)
(* on the low 32 bits of the operands, so reducing first gives the same n.  *)

Half == 65536

\* the low 32 bits of the (two's complement) integer n
ToWord(n) == << (n \div Half) % Half, n % Half >>

RECURSIVE Xor16(_, _)
Xor16(a, b) ==
    IF a = 0 THEN b
    ELSE IF b = 0 THEN a
    ELSE (((a % 2) + (b % 2)) % 2) + 2 * Xor16(a \div 2, b \div 2)

WordXor(a, b) == << Xor16(a[1], b[1]), Xor16(a[2], b[2]) >>

\* a >> 13
WordShr13(a) == << a[1] \div 8192, (a[2] \div 8192) + (a[1] % 8192) * 8 >>

\* the 32-bit product of two 16-bit numbers, as <<hi, lo>>, by 8-bit limbs
Mul16(a, b) ==
    LET a0 == a % 256
        a1 == a \div 256
        b0 == b % 256
        b1 == b \div 256
        t0 == a0 * b0
        t1 == a1 * b0 + a0 * b1
        t2 == a1 * b1
        low == t0 + (t1 % 256) * 256
    IN  << (t2 + (t1 \div 256) + (low \div Half)) % Half, low % Half >>

\* (a * b) & 0xFFFFFFFF
WordMul(a, b) ==
    LET ll == Mul16(a[2], b[2])
        hl == Mul16(a[1], b[2])
        lh == Mul16(a[2], b[1])
    IN  << (ll[1] + hl[2] + lh[2]) % Half, ll[2] >>

WordLess(a, b) == a[1] < b[1] \/ (a[1] = b[1] /\ a[2] < b[2])

PrimeX == 73856093
PrimeY == 19349663
PrimeSeed == 83492791
MixMultiplier == 1274126177
\* 0xFFFFFFFF, the divisor of the result
NoiseDivisor == << 65535, 65535 >>

\* the result is the exact quotient num / den; true division of two integers
\* below 2^32 is correctly rounded and (2^32 - 2) / (2^32 - 1) is a double
\* below 1.0, so the float is 1.0 exactly when num = den
hash_noise(x, y, seed) ==
    LET n1 == WordXor(WordXor(WordMul(ToWord(x), ToWord(PrimeX)),
                              WordMul(ToWord(y), ToWord(PrimeY))),
                      WordMul(ToWord(seed), ToWord(PrimeSeed)))
        n2 == WordMul(WordXor(n1, WordShr13(n1)), ToWord(MixMultiplier))
    IN  [num |-> n2, den |-> NoiseDivisor]

\* the arguments tried: pixel coordinates and seeds of the texture
\* synthesizers, negative and large values
NoiseXs == { 0, 1, 12, 255, 765, -1, 1494753429 }
NoiseYs == { 0, 1, 180, 255, -7 }
NoiseSeeds == { 0, 11, 64, 129495 }

HashNoise ==
    /\ \E x \in NoiseXs, y \in NoiseYs, seed \in NoiseSeeds :
          noise' = [x |-> x, y |-> y, seed |-> seed,
                    ret |-> hash_noise(x, y, seed), made |-> TRUE]
    /\ UNCHANGED notNoiseVars

NoiseInit == MeshIdle /\ NoiseIdle /\ FilesIdle

NoiseNext == HashNoise

SpecNoise == NoiseInit /\ [][NoiseNext]_vars

\* C10: for every integer triple, hash_noise(x, y, seed) is >= 0 and
\* strictly less than 1.
C10_NoiseInHalfOpenUnit ==
    noise.made
    => /\ WordLess(noise.ret.num, noise.ret.den)
       /\ ~ WordLess(noise.ret.num, <<0, 0>>)

-----------------------------------------------------------------------------
(* Files.  fs maps the paths that exist (relative to the theme directory)   *)
(* to their content; a directory is an entry of its own.  A path is a       *)
(* record of its parent directory, stem and suffix, as pathlib splits it.   *)
(* A binary file is a sequence of bytes 0..255.                             *)

Path(parent, stem, suffix) == [parent |-> parent, stem |-> stem, suffix |-> suffix]
PathName(path) == path.stem \o path.suffix
PathKey(path) == path.parent \o "/" \o PathName(path)

Exists(key) == key \in DOMAIN fs
Directory == [t |-> "dir"]
Bytes(b) == [t |-> "bytes", b |-> b]

\* bug: a file that exists is left as it is
WriteFile_keeps_existing(files, key, content) == files @@ (key :> content)

\* fs after path.write_bytes / path.write_text: the file is created or replaced
WriteFile(files, key, content) == (key :> content) @@ files

-----------------------------------------------------------------------------
(* PNG encoder: write_png *)

\* bug: the four bytes least significant first
PackU32_little_endian(n) == << n % 256, (n \div 256) % 256, (n \div 65536) % 256, (n \div 16777216) % 256 >>

\* struct.pack(">I", n): four bytes, most significant first
PackU32(n) == << (n \div 16777216) % 256, (n \div 65536) % 256, (n \div 256) % 256, n % 256 >>
\* the same for a 32-bit value held as <<hi, lo>>
PackWord(w) == << w[1] \div 256, w[1] % 256, w[2] \div 256, w[2] % 256 >>
\* struct.unpack(">I", four bytes)
UnpackU32(b) == ((b[1] * 256 + b[2]) * 256 + b[3]) * 256 + b[4]

WordShr1(a) == << a[1] \div 2, (a[2] \div 2) + (a[1] % 2) * 32768 >>
\* 0xEDB88320, the reflected CRC-32 polynomial zlib.crc32 uses
CrcPoly == << 60856, 33568 >>
AllOnes == << 65535, 65535 >>

RECURSIVE crc_bits(_, _)
crc_bits(crc, k) ==
    IF k = 0 THEN crc
    ELSE crc_bits(IF crc[2] % 2 = 1 THEN WordXor(WordShr1(crc), CrcPoly) ELSE WordShr1(crc),
                  k - 1)

RECURSIVE crc_loop(_, _, _)
crc_loop(data, i, crc) ==
    IF i > Len(data) \/ crc[1] < 0 THEN crc
    ELSE crc_loop(data, i + 1, crc_bits(WordXor(crc, <<0, data[i]>>), 8))

\* zlib.crc32(data) & 0xFFFFFFFF, as <<hi, lo>>
crc32(data) == WordXor(crc_loop(data, 1, AllOnes), AllOnes)

RECURSIVE adler_loop(_, _, _, _)
adler_loop(data, i, a, b) ==
    IF i > Len(data) \/ a + b < 0 THEN <<b, a>>
    ELSE LET a2 == (a + data[i]) % 65521
         IN  adler_loop(data, i + 1, a2, (b + a2) % 65521)

\* the Adler-32 checksum that ends a zlib stream, as <<hi, lo>>
adler32(data) == adler_loop(data, 1, 1, 0)

\* zlib.compress(raw, level=9).  zlib is a library: the model keeps its
\* contract, a zlib stream that inflates to raw, in the simplest form the
\* format allows: the header 78 DA of level 9, one stored deflate block
\* (final, LEN, ~LEN, the bytes) and the Adler-32 of raw.  Real zlib picks
\* Huffman blocks, so the payload bytes differ while inflating to the same.
zlib_compress(raw) ==
    <<120, 218, 1>>
    \o << Len(raw) % 256, Len(raw) \div 256, 255 - (Len(raw) % 256), 255 - (Len(raw) \div 256) >>
    \o raw
    \o PackWord(adler32(raw))

PngSignature == <<137, 80, 78, 71, 13, 10, 26, 10>>
IHDR == <<73, 72, 68, 82>>
IDAT == <<73, 68, 65, 84>>
IEND == <<73, 69, 78, 68>>

\* bug: the checksum leaves out the chunk type
chunk_crc_without_type(chunk_type, data) ==
    PackU32(Len(data)) \o chunk_type \o data \o PackWord(crc32(data))

\* write_png.chunk
chunk(chunk_type, data) ==
    PackU32(Len(data)) \o chunk_type \o data \o PackWord(crc32(chunk_type \o data))

\* the pixel functions tried: two that return bytes and one whose red
\* channel is 256, which bytearray.extend refuses (ValueError)
PixelFns == { "black", "coords", "overflow" }
pixel_fn(fn, x, y) ==
    CASE fn = "black" -> <<0, 0, 0>>
      [] fn = "coords" -> <<x + 1, y + 1, 7>>
      [] fn = "overflow" -> <<256, 0, 0>>

RECURSIVE png_row(_, _, _, _, _)
png_row(fn, width, y, x, row) ==
    IF x >= width THEN row
    ELSE png_row(fn, width, y, x + 1, row \o pixel_fn(fn, x, y))

RECURSIVE png_rows(_, _, _, _, _)
png_rows(fn, width, height, y, raw) ==
    IF y >= height THEN raw
    ELSE png_rows(fn, width, height, y + 1, raw \o png_row(fn, width, y, 0, <<0>>))

\* the bytes write_png hands to path.write_bytes
png_encode(width, height, fn) ==
    LET raw == png_rows(fn, width, height, 0, <<>>)
        compressed == zlib_compress(raw)
    IN  PngSignature
        \o chunk(IHDR, PackU32(width) \o PackU32(height) \o <<8, 2, 0, 0, 0>>)
        \o chunk(IDAT, compressed)
        \o chunk(IEND, <<>>)

\* the sizes tried: the small images, and two wide images without rows
PngSizes == ((0..MaxDim) \X (0..MaxDim)) \cup { <<70000, 0>>, <<2147483647, 0>> }

\* png_encode over the arguments tried, computed once
RECURSIVE encode_all(_)
encode_all(todo) ==
    IF todo = {} THEN <<>>
    ELSE LET a == CHOOSE a \in todo : TRUE
         IN  (a :> png_encode(a[1][1], a[1][2], a[2])) @@ encode_all(todo \ {a})
EncodedPngs == encode_all(PngSizes \X PixelFns)
png_bytes(width, height, fn) == EncodedPngs[<< <<width, height>>, fn >>]

\* write_png raises, and writes nothing, when a pixel component is not a
\* byte (the row loop runs first) or the directory does not exist
write_png_raises(files, path, width, height, fn) ==
    \/ \E x \in 0..(width - 1), y \in 0..(height - 1) :
          \E c \in 1..3 : pixel_fn(fn, x, y)[c] \notin 0..255
    \/ ~ (path.parent \in DOMAIN files)

write_png(files, path, width, height, fn) ==
    IF write_png_raises(files, path, width, height, fn) THEN files
    ELSE WriteFile(files, PathKey(path), Bytes(png_bytes(width, height, fn)))

-----------------------------------------------------------------------------
(* Validator: read_png_size *)

Raise(msg) == [raised |-> TRUE, msg |-> msg]
Return(v) == [raised |-> FALSE, v |-> v]

\* bug: the type of the first chunk is not looked at
read_png_size_any_chunk(files, key) ==
    IF ~ (key \in DOMAIN files) \/ files[key].t # "bytes" THEN Raise("cannot read")
    ELSE LET data == files[key].b
         IN  IF Len(data) < 33 THEN Raise("png too short")
             ELSE IF SubSeq(data, 1, 8) # PngSignature THEN Raise("invalid png signature")
             ELSE Return(<< UnpackU32(SubSeq(data, 17, 20)), UnpackU32(SubSeq(data, 21, 24)) >>)

read_png_size(files, key) ==
    IF ~ (key \in DOMAIN files) \/ files[key].t # "bytes" THEN Raise("cannot read")
    ELSE LET data == files[key].b
         IN  IF Len(data) < 33 THEN Raise("png too short")
             ELSE IF SubSeq(data, 1, 8) # PngSignature THEN Raise("invalid png signature")
             ELSE IF SubSeq(data, 13, 16) # IHDR THEN Raise("missing IHDR chunk")
             ELSE Return(<< UnpackU32(SubSeq(data, 17, 20)), UnpackU32(SubSeq(data, 21, 24)) >>)

-----------------------------------------------------------------------------
(* JSON values, as json.loads returns them.  A dict is the sequence of its   *)
(* <<key, value>> items in insertion order.  JRaise stands for an exception *)
(* raised while a value is computed.                                        *)

JNull == [j |-> "null"]
JBool(b) == [j |-> "bool", n |-> IF b THEN 1 ELSE 0]
JInt(n) == [j |-> "int", n |-> n]
JFloat(milli) == [j |-> "float", milli |-> milli]
JStr(s) == [j |-> "str", s |-> s]
JArr(a) == [j |-> "arr", a |-> a]
JObj(items) == [j |-> "obj", o |-> items]
JRaise == [j |-> "raise"]

\* key in dict, and dict[key]: json.loads keeps the last of repeated keys
HasKey(dict, key) == \E i \in 1..Len(dict.o) : dict.o[i][1] = key
Lookup(dict, key) ==
    dict.o[CHOOSE i \in 1..Len(dict.o) :
               /\ dict.o[i][1] = key
               /\ \A k \in (i + 1)..Len(dict.o) : dict.o[k][1] # key][2]

\* container[key] of Python: KeyError / IndexError / TypeError are JRaise.
\* A character of a string is not modelled: validate_mesh indexes every
\* value it gets this way with a string key next, which raises TypeError.
GetItem(container, key) ==
    CASE container.j = "raise" \/ key.j = "raise" -> JRaise
      [] container.j = "obj" /\ key.j # "raise" ->
            IF key.j = "str" /\ HasKey(container, key.s)
            THEN Lookup(container, key.s) ELSE JRaise
      [] container.j = "arr" /\ key.j # "raise" ->
            IF key.j \in {"int", "bool"}
            THEN LET n == Len(container.a)
                 IN  IF key.n \in 0..(n - 1) THEN container.a[key.n + 1]
                     ELSE IF key.n \in (-n)..(-1) THEN container.a[n + key.n + 1]
                     ELSE JRaise
            ELSE JRaise
      [] OTHER -> JRaise

\* the decimal strings that occur as a count in the documents tried
IntLiterals == [s \in {"20", "7"} |-> IF s = "20" THEN 20 ELSE 7]

\* int(value): an int as it is, a float truncated toward zero, a bool as
\* 0 or 1, a decimal string parsed; anything else raises
IntOf(value) ==
    CASE value.j \in {"int", "bool"} -> JInt(value.n)
      [] value.j = "float" ->
            JInt(IF value.milli < 0 THEN -((-value.milli) \div 1000) ELSE value.milli \div 1000)
      [] value.j = "str" ->
            IF value.s \in DOMAIN IntLiterals THEN JInt(IntLiterals[value.s]) ELSE JRaise
      [] OTHER -> JRaise

\* bool(value) of Python is False
Falsy(value) ==
    \/ value.j = "null"
    \/ value.j \in {"int", "bool"} /\ value.n = 0
    \/ value.j = "float" /\ value.milli = 0
    \/ value.j = "str" /\ value.s = ""
    \/ value.j = "arr" /\ value.a = <<>>
    \/ value.j = "obj" /\ value.o = <<>>

-----------------------------------------------------------------------------
(* JSON text.  A text file is the sequence of the tokens of its content:    *)
(* the six punctuation marks, string, int and float literals, true, false,  *)
(* null, and "junk" for text that is no JSON token.  White space (the       *)
(* indentation and the final newline json.dumps is asked for) separates     *)
(* tokens and is not kept.                                                  *)

Tok(t) == [tok |-> t]
Text(tokens) == [t |-> "text", tokens |-> tokens]

Comma == << Tok(",") >>

\* json.dumps(value): a dict as { "key" : value , ... } in insertion order,
\* a list as [ value , ... ]
RECURSIVE json_dumps(_)
RECURSIVE dumps_items(_, _)
RECURSIVE dumps_elements(_, _)
dumps_items(items, i) ==
    IF i > Len(items) THEN <<>>
    ELSE (IF i > 1 THEN Comma ELSE <<>>)
         \o << [tok |-> "str", s |-> items[i][1]], Tok(":") >>
         \o json_dumps(items[i][2])
         \o dumps_items(items, i + 1)

dumps_elements(elements, i) ==
    IF i > Len(elements) THEN <<>>
    ELSE (IF i > 1 THEN Comma ELSE <<>>)
         \o json_dumps(elements[i])
         \o dumps_elements(elements, i + 1)

json_dumps(value) ==
    CASE value.j = "null" -> << Tok("null") >>
      [] value.j = "bool" -> << Tok(IF value.n = 1 THEN "true" ELSE "false") >>
      [] value.j = "int" -> << [tok |-> "int", n |-> value.n] >>
      [] value.j = "float" -> << [tok |-> "float", milli |-> value.milli] >>
      [] value.j = "str" -> << [tok |-> "str", s |-> value.s] >>
      [] value.j = "arr" -> << Tok("[") >> \o dumps_elements(value.a, 1) \o << Tok("]") >>
      [] value.j = "obj" -> << Tok("{") >> \o dumps_items(value.o, 1) \o << Tok("}") >>

\* the parser of json.loads: the value that starts at token i and the
\* position after it, or a failure
Parsed(value, pos) == [ok |-> TRUE, v |-> value, pos |-> pos]
ParseFail == [ok |-> FALSE]
TokAt(tokens, i) == IF i \in 1..Len(tokens) THEN tokens[i].tok ELSE "end"

RECURSIVE parse_value(_, _)
RECURSIVE parse_items(_, _, _)
RECURSIVE parse_elements(_, _, _)
parse_items(tokens, i, items) ==
    IF TokAt(tokens, i) # "str" \/ TokAt(tokens, i + 1) # ":" THEN ParseFail
    ELSE Only({
        IF ~ value.ok THEN ParseFail
        ELSE IF TokAt(tokens, value.pos) = ","
             THEN parse_items(tokens, value.pos + 1, Append(items, << tokens[i].s, value.v >>))
        ELSE IF TokAt(tokens, value.pos) = "}"
             THEN Parsed(JObj(Append(items, << tokens[i].s, value.v >>)), value.pos + 1)
        ELSE ParseFail
        : value \in { parse_value(tokens, i + 2) } })

parse_elements(tokens, i, elements) ==
    Only({
        IF ~ value.ok THEN ParseFail
        ELSE IF TokAt(tokens, value.pos) = ","
             THEN parse_elements(tokens, value.pos + 1, Append(elements, value.v))
        ELSE IF TokAt(tokens, value.pos) = "]"
             THEN Parsed(JArr(Append(elements, value.v)), value.pos + 1)
        ELSE ParseFail
        : value \in { parse_value(tokens, i) } })

parse_value(tokens, i) ==
    LET t == TokAt(tokens, i)
    IN  CASE t = "null" -> Parsed(JNull, i + 1)
          [] t = "true" -> Parsed(JBool(TRUE), i + 1)
          [] t = "false" -> Parsed(JBool(FALSE), i + 1)
          [] t = "int" -> Parsed(JInt(tokens[i].n), i + 1)
          [] t = "float" -> Parsed(JFloat(tokens[i].milli), i + 1)
          [] t = "str" -> Parsed(JStr(tokens[i].s), i + 1)
          [] t = "[" -> IF TokAt(tokens, i + 1) = "]" THEN Parsed(JArr(<<>>), i + 2)
                        ELSE parse_elements(tokens, i + 1, <<>>)
          [] t = "{" -> IF TokAt(tokens, i + 1) = "}" THEN Parsed(JObj(<<>>), i + 2)
                        ELSE parse_items(tokens, i + 1, <<>>)
          [] OTHER -> ParseFail

\* json.loads(path.read_text(encoding="utf-8")): a missing file, a
\* directory and a binary file (the PNG files and buffers here are not
\* UTF-8) raise in read_text; text raises unless it is exactly one value
json_loads(files, key) ==
    IF key \in DOMAIN files /\ files[key].t = "text"
    THEN Only({ IF value.ok /\ value.pos = Len(files[key].tokens) + 1 THEN value.v ELSE JRaise
                : value \in { parse_value(files[key].tokens, 1) } })
    ELSE JRaise

-----------------------------------------------------------------------------
(* Validator: profiles *)

ENTITIES == << "agent", "location", "asset", "power_plant", "power_storage" >>
TEXTURE_CHANNELS == << "base", "normal", "metallic_roughness", "emissive" >>

PROFILES ==
    [ v1 |-> [ name |-> "v1",
               mesh_suffix |-> "",
               preset_files |-> << "industrial_default.env", "industrial_matte.env",
                                   "industrial_glossy.env" >>,
               min_texture_size |-> 256,
               min_vertices |-> [ agent |-> 18, location |-> 300, asset |-> 16,
                                  power_plant |-> 30, power_storage |-> 200 ] ],
      v2 |-> [ name |-> "v2",
               mesh_suffix |-> "_v2",
               preset_files |-> << "industrial_v2_default.env", "industrial_v2_matte.env",
                                   "industrial_v2_glossy.env" >>,
               min_texture_size |-> 512,
               min_vertices |-> [ agent |-> 48, location |-> 1200, asset |-> 90,
                                  power_plant |-> 90, power_storage |-> 900 ] ] ]

\* an entry of the error list: the kind of message, the path it names, the
\* exception text or buffer uri it quotes, and the numbers it quotes
Error(kind, path, msg, detail) == [kind |-> kind, path |-> path, msg |-> msg, detail |-> detail]

MeshPath(entity, profile) == Path("meshes", entity \o "_industrial" \o profile.mesh_suffix, ".gltf")
TexturePath(entity, channel) == Path("textures", entity \o "_" \o channel, ".png")

-----------------------------------------------------------------------------
(* Validator: validate_mesh *)

\* the for loop over gltf.get("buffers", []), from item number i on; it is
\* outside the try blocks, so what it raises leaves validate_mesh
RECURSIVE buffer_loop(_, _, _, _, _)
buffer_loop(files, path, buffers, i, errors) ==
    IF i > Len(buffers) THEN Return(errors)
    ELSE LET buffer == buffers[i]
             uri == IF HasKey(buffer, "uri") THEN Lookup(buffer, "uri") ELSE JNull
         IN  IF buffer.j # "obj" THEN Raise("AttributeError")
             ELSE IF Falsy(uri) THEN buffer_loop(files, path, buffers, i + 1, errors)
             ELSE IF uri.j # "str" THEN Raise("TypeError")
             ELSE IF (path.parent \o "/" \o uri.s) \in DOMAIN files
                  THEN buffer_loop(files, path, buffers, i + 1, errors)
                  ELSE buffer_loop(files, path, buffers, i + 1,
                           Append(errors, Error("missing buffer file", PathKey(path), uri.s, <<>>)))

\* what the for statement iterates over: the items of a list, the keys of a
\* dict, the characters of a string; any other value is not iterable.  A key
\* or a character is a string, on which buffer.get raises.
buffer_items(buffers) ==
    CASE buffers.j = "arr" -> Return(buffers.a)
      [] buffers.j = "obj" ->
            Return(IF buffers.o = <<>> THEN <<>> ELSE << JStr("key") >>)
      [] buffers.j = "str" ->
            Return(IF buffers.s = "" THEN <<>> ELSE << JStr("char") >>)
      [] OTHER -> Raise("TypeError")

\* Return(<<vertex count, errors>>), or Raise when an exception leaves it
position_count(gltf) ==
    LET primitive == GetItem(GetItem(GetItem(GetItem(gltf, JStr("meshes")), JInt(0)),
                                     JStr("primitives")), JInt(0))
        position_accessor_index == GetItem(GetItem(primitive, JStr("attributes")), JStr("POSITION"))
    IN  IntOf(GetItem(GetItem(GetItem(gltf, JStr("accessors")),
                              position_accessor_index), JStr("count")))

validate_mesh(files, path) ==
    Only({
        IF gltf.j = "raise"
        THEN Return(<< 0, << Error("failed to parse gltf json", PathKey(path), "exc", <<>>) >> >>)
        ELSE Only({
            IF vertex_count.j = "raise"
            THEN Return(<< 0, << Error("missing POSITION accessor/count", PathKey(path), "exc", <<>>) >> >>)
            ELSE Only({
                IF items.raised THEN items
                ELSE Only({ IF looped.raised THEN looped
                            ELSE Return(<< vertex_count.n, looped.v >>)
                            : looped \in { buffer_loop(files, path, items.v, 1, <<>>) } })
                : items \in { buffer_items(IF HasKey(gltf, "buffers")
                                           THEN Lookup(gltf, "buffers") ELSE JArr(<<>>)) } })
            : vertex_count \in { position_count(gltf) } })
        : gltf \in { json_loads(files, PathKey(path)) } })

-----------------------------------------------------------------------------
(* Validator: validate_theme_pack and main *)

RECURSIVE preset_loop(_, _, _, _)
preset_loop(files, profile, i, errors) ==
    IF i > Len(profile.preset_files) THEN errors
    ELSE LET key == "presets/" \o profile.preset_files[i]
         IN  preset_loop(files, profile, i + 1,
                 IF key \in DOMAIN files THEN errors
                 ELSE Append(errors, Error("missing preset file", key, "", <<>>)))

\* the mesh part of one entity: Return(errors added) or Raise
mesh_checks(files, profile, entity) ==
    LET mesh_path == MeshPath(entity, profile)
        required_vertices == profile.min_vertices[entity]
    IN  IF ~ (PathKey(mesh_path) \in DOMAIN files)
        THEN Return(<< Error("missing mesh file", PathKey(mesh_path), "", <<>>) >>)
        ELSE Only({
            IF result.raised THEN result
            ELSE Return(result.v[2] \o
                        (IF result.v[1] < required_vertices
                         THEN << Error("vertex count", PathKey(mesh_path), "",
                                       << result.v[1], required_vertices >>) >>
                         ELSE <<>>))
            : result \in { validate_mesh(files, mesh_path) } })

\* the errors one texture channel of one entity adds
texture_checks(files, entity, channel, min_texture_size) ==
    LET key == PathKey(TexturePath(entity, channel))
    IN  IF ~ (key \in DOMAIN files) THEN << Error("missing texture file", key, "", <<>>) >>
        ELSE Only({
            IF size.raised THEN << Error("invalid png", key, size.msg, <<>>) >>
            ELSE LET width == size.v[1]
                     height == size.v[2]
                 IN  (IF width < min_texture_size \/ height < min_texture_size
                      THEN << Error("size", key, "", << width, height, min_texture_size >>) >>
                      ELSE <<>>)
                     \o (IF width # height
                         THEN << Error("texture must be square", key, "", << width, height >>) >>
                         ELSE <<>>)
            : size \in { read_png_size(files, key) } })

RECURSIVE channel_loop(_, _, _, _, _)
channel_loop(files, entity, min_texture_size, i, errors) ==
    IF i > Len(TEXTURE_CHANNELS) THEN errors
    ELSE channel_loop(files, entity, min_texture_size, i + 1,
             errors \o texture_checks(files, entity, TEXTURE_CHANNELS[i], min_texture_size))

\* the for loop over ENTITIES from entity number i on
RECURSIVE entity_loop(_, _, _, _, _)
entity_loop(files, profile, min_texture_size, i, errors) ==
    IF i > Len(ENTITIES) THEN Return(errors)
    ELSE Only({
             IF mesh.raised THEN mesh
             ELSE entity_loop(files, profile, min_texture_size, i + 1,
                      channel_loop(files, ENTITIES[i], min_texture_size, 1, so_far \o mesh.v))
             : mesh \in { mesh_checks(files, profile, ENTITIES[i]) }, so_far \in { errors } })

directory_checks(files) ==
    SelectSeq([i \in 1..3 |-> Error("missing directory", << "meshes", "textures", "presets" >>[i], "", <<>>)],
              LAMBDA e : ~ (e.path \in DOMAIN files))

\* Return(errors), or Raise when an exception leaves validate_mesh
validate_theme_pack(files, profile, min_texture_size) ==
    entity_loop(files, profile, min_texture_size, 1,
                preset_loop(files, profile, 1, directory_checks(files)))

\* the validator's main for --profile and --min-texture-size: the effective
\* threshold, the list (unless an exception ended the run) and the exit
\* status; an uncaught exception ends the interpreter with status 1
validator_main(files, profile_name, arg_min_texture_size) ==
    LET profile == PROFILES[profile_name]
        min_texture_size == IF arg_min_texture_size > 0 THEN arg_min_texture_size
                            ELSE profile.min_texture_size
    IN  Only({
          [ fn |-> "main", profile |-> profile_name, min_texture_size |-> min_texture_size,
            raised |-> result.raised,
            errors |-> IF result.raised THEN <<>> ELSE result.v,
            exit |-> IF result.raised \/ result.v # <<>> THEN 1 ELSE 0 ]
          : result \in { validate_theme_pack(files, profile, min_texture_size) } })

-----------------------------------------------------------------------------
(* glTF export: normals, texture coordinates, the binary buffer and the     *)
(* document.  Lengths are in units of 0.001 as in the builders.             *)

\* a / b rounded toward zero, b > 0
DivTrunc(a, b) == IF a < 0 THEN -((-a) \div b) ELSE a \div b

Min(S) == CHOOSE m \in S : \A x \in S : m <= x
Max(S) == CHOOSE m \in S : \A x \in S : m >= x

add3(a, b) == << a[1] + b[1], a[2] + b[2], a[3] + b[3] >>
sub3(a, b) == << a[1] - b[1], a[2] - b[2], a[3] - b[3] >>
cross3(a, b) ==
    << MulMilli(a[2], b[3]) - MulMilli(a[3], b[2]),
       MulMilli(a[3], b[1]) - MulMilli(a[1], b[3]),
       MulMilli(a[1], b[2]) - MulMilli(a[2], b[1]) >>

\* the integer square root, by Newton's iteration from x
RECURSIVE sqrt_loop(_, _)
sqrt_loop(n, x) ==
    LET y == (x + n \div x) \div 2
    IN  IF y >= x THEN x ELSE sqrt_loop(n, y)

\* math.sqrt of the sum of squares; the squares of two lengths in units of
\* 0.001 are in units of 0.000001, whose root is in units of 0.001 again
len3(v) ==
    LET n == v[1] * v[1] + v[2] * v[2] + v[3] * v[3]
    IN  IF n = 0 THEN 0 ELSE sqrt_loop(n, n)

\* a length of at most 1e-8 is 0 in units of 0.001
normalize3(v) ==
    LET l == len3(v)
    IN  IF l <= 0 THEN << 0, 1000, 0 >>
        ELSE << DivTrunc(v[1] * 1000, l), DivTrunc(v[2] * 1000, l), DivTrunc(v[3] * 1000, l) >>

\* the face vector of the triangle whose first index is at position i
face_of(vertices, indices, i) ==
    LET p0 == vertices[indices[i] + 1]
        p1 == vertices[indices[i + 1] + 1]
        p2 == vertices[indices[i + 2] + 1]
    IN  cross3(sub3(p1, p0), sub3(p2, p0))

RECURSIVE add_faces(_, _, _)
add_faces(vertices, indices, positions) ==
    IF positions = {} THEN << 0, 0, 0 >>
    ELSE LET k == CHOOSE k \in positions : TRUE
         IN  add3(face_of(vertices, indices, k - ((k - 1) % 3)),
                  add_faces(vertices, indices, positions \ {k}))

\* the loop adds the face vector of a triangle to the normal of each of its
\* three corners: the normal of a vertex is the sum over the positions of
\* the index list that name it
compute_normals(vertices, indices) ==
    [v \in 1..Len(vertices) |->
        normalize3(add_faces(vertices, indices,
                             { k \in 1..Len(indices) : indices[k] = v - 1 }))]

\* pi * 1000
PiMilli == 3142

\* atan(t / 1000) * 1000 for -1000 <= t <= 1000: t / (1 + 0.28 t^2)
AtanUnit(t) == DivTrunc(t * 1000000, 1000000 + (28 * t * t) \div 100)

\* math.atan2(y, x) * 1000
Atan2(y, x) ==
    IF x = 0 /\ y = 0 THEN 0
    ELSE IF Abs(y) <= Abs(x)
         THEN LET a == AtanUnit(DivTrunc(y * 1000, Abs(x)))
              IN  IF x > 0 THEN a
                  ELSE IF y >= 0 THEN PiMilli - a ELSE -PiMilli - a
         ELSE LET a == AtanUnit(DivTrunc(x * 1000, Abs(y)))
              IN  IF y > 0 THEN PiMilli \div 2 - a ELSE -(PiMilli \div 2) - a

\* a span of 1e-6 (all vertices at one height) divides a difference of 0
compute_uvs(vertices) ==
    Only({ LET span_y == max_y - min_y
           IN  [k \in 1..Len(vertices) |->
                   << 500 + DivTrunc(Atan2(vertices[k][3], vertices[k][1]) * 1000, 2 * PiMilli),
                      1000 - (IF span_y = 0 THEN 0
                              ELSE ((vertices[k][2] - min_y) * 1000) \div span_y) >>]
           : min_y \in { Min({ vertices[k][2] : k \in 1..Len(vertices) }) },
             max_y \in { Max({ vertices[k][2] : k \in 1..Len(vertices) }) } })

\* The binary buffer is a sequence of cells: a 32-bit float (4 bytes, kept
\* as the number it encodes) or one byte.
FloatCell(milli) == [c |-> "f32", milli |-> milli]
ByteCell(b) == [c |-> "byte", b |-> b]
CellSize(cell) == IF cell.c = "f32" THEN 4 ELSE 1
\* len(blob) for a blob of cells of one kind
BlobSize(blob) == IF blob = <<>> THEN 0 ELSE Len(blob) * CellSize(blob[1])
Blob(cells, size) == [t |-> "blob", cells |-> cells, size |-> size]

\* b"".join(struct.pack("<fff", *v) for v in vectors), and "<ff" for n = 2
pack_floats(vectors, n) ==
    AsList([k \in 1..(n * Len(vectors)) |->
               FloatCell(vectors[((k - 1) \div n) + 1][((k - 1) % n) + 1])])
\* bug: the high byte first
pack_indices_high_byte_first(indices) ==
    AsList([k \in 1..(2 * Len(indices)) |->
               LET idx == indices[((k - 1) \div 2) + 1]
               IN  ByteCell(IF k % 2 = 1 THEN idx \div 256 ELSE idx % 256)])

\* b"".join(struct.pack("<H", idx) for idx in indices): low byte first
pack_indices(indices) ==
    AsList([k \in 1..(2 * Len(indices)) |->
               LET idx == indices[((k - 1) \div 2) + 1]
               IN  ByteCell(IF k % 2 = 1 THEN idx % 256 ELSE idx \div 256)])

\* bug: the view's byteLength is the number of values, not of bytes
append_blob_length_in_values(so_far, blob, target, align) ==
    LET padding == (align - (so_far.size % align)) % align
        offset == so_far.size + padding
        view == JObj(<< << "buffer", JInt(0) >>,
                        << "byteOffset", JInt(offset) >>,
                        << "byteLength", JInt(Len(blob)) >>,
                        << "target", JInt(target) >> >>)
    IN  [ buffer |-> so_far.buffer \o [k \in 1..padding |-> ByteCell(0)] \o blob,
          size |-> offset + BlobSize(blob),
          buffer_views |-> Append(so_far.buffer_views, view) ]

\* write_gltf.append_blob on the buffer and the list of views so far
append_blob(so_far, blob, target, align) ==
    LET padding == (align - (so_far.size % align)) % align
        offset == so_far.size + padding
        view == JObj(<< << "buffer", JInt(0) >>,
                        << "byteOffset", JInt(offset) >>,
                        << "byteLength", JInt(BlobSize(blob)) >>,
                        << "target", JInt(target) >> >>)
    IN  [ buffer |-> so_far.buffer \o [k \in 1..padding |-> ByteCell(0)] \o blob,
          size |-> offset + BlobSize(blob),
          buffer_views |-> Append(so_far.buffer_views, view) ]

\* the four blobs of write_gltf: positions, normals, texture coordinates
\* (floats) and indices (unsigned shorts)
gltf_blobs(vertices, indices) ==
    Only({ << pack_floats(vertices, 3),
              pack_floats(normals, 3),
              pack_floats(uvs, 2),
              pack_indices(indices) >>
           : normals \in { AsList(compute_normals(vertices, indices)) },
             uvs \in { AsList(compute_uvs(vertices)) } })

\* the buffer and the views after the four append_blob calls
gltf_buffer(vertices, indices) ==
    LET empty == [ buffer |-> <<>>, size |-> 0, buffer_views |-> <<>> ]
    IN  Only({ Only({ Only({ Only({
                 append_blob(uv, blobs[4], 34963, 2)
                 : uv \in { append_blob(nrm, blobs[3], 34962, 4) } })
                 : nrm \in { append_blob(pos, blobs[2], 34962, 4) } })
                 : pos \in { append_blob(empty, blobs[1], 34962, 4) } })
                 : blobs \in { gltf_blobs(vertices, indices) } })

\* bug: the count declared is the number of the buffer view
Accessor_count_of_view(view, component_type, count, type, more) ==
    JObj(<< << "bufferView", JInt(view) >>,
            << "componentType", JInt(component_type) >>,
            << "count", JInt(view) >>,
            << "type", JStr(type) >> >> \o more)

\* bug: every accessor reads buffer view 0
Accessor_of_first_view(view, component_type, count, type, more) ==
    JObj(<< << "bufferView", JInt(0) >>,
            << "componentType", JInt(component_type) >>,
            << "count", JInt(count) >>,
            << "type", JStr(type) >> >> \o more)

\* an entry of the accessors list
Accessor(view, component_type, count, type, more) ==
    JObj(<< << "bufferView", JInt(view) >>,
            << "componentType", JInt(component_type) >>,
            << "count", JInt(count) >>,
            << "type", JStr(type) >> >> \o more)

\* the dict write_gltf serialises, built being the buffer and its views
gltf_document(path, mesh_name, vertices, indices, built) ==
    LET axis(i) == { vertices[k][i] : k \in 1..Len(vertices) }
        index_values == { indices[k] : k \in 1..Len(indices) }
        accessors ==
            << Accessor(0, 5126, Len(vertices), "VEC3",
                   << << "min", JArr([i \in 1..3 |-> JFloat(Min(axis(i)))]) >>,
                      << "max", JArr([i \in 1..3 |-> JFloat(Max(axis(i)))]) >> >>),
               Accessor(1, 5126, Len(vertices), "VEC3", <<>>),
               Accessor(2, 5126, Len(vertices), "VEC2", <<>>),
               Accessor(3, 5123, Len(indices), "SCALAR",
                   << << "min", JArr(<< JInt(Min(index_values)) >>) >>,
                      << "max", JArr(<< JInt(Max(index_values)) >>) >> >>) >>
    IN  JObj(<<
          << "asset", JObj(<< << "version", JStr("2.0") >>,
                              << "generator", JStr("generate-viewer-industrial-theme-assets.py") >> >>) >>,
          << "scene", JInt(0) >>,
          << "scenes", JArr(<< JObj(<< << "nodes", JArr(<< JInt(0) >>) >> >>) >>) >>,
          << "nodes", JArr(<< JObj(<< << "mesh", JInt(0) >>,
                                      << "name", JStr(mesh_name \o "Node") >> >>) >>) >>,
          << "meshes", JArr(<< JObj(<<
                << "name", JStr(mesh_name) >>,
                << "primitives", JArr(<< JObj(<<
                      << "attributes", JObj(<< << "POSITION", JInt(0) >>,
                                               << "NORMAL", JInt(1) >>,
                                               << "TEXCOORD_0", JInt(2) >> >>) >>,
                      << "indices", JInt(3) >> >>) >>) >> >>) >>) >>,
          << "buffers", JArr(<< JObj(<< << "uri", JStr(path.stem \o ".bin") >>,
                                        << "byteLength", JInt(built.size) >> >>) >>) >>,
          << "bufferViews", JArr(built.buffer_views) >>,
          << "accessors", JArr(accessors) >> >>)

\* write_gltf raises before it writes anything: IndexError in
\* compute_normals (an index outside the vertex list, a last triangle that
\* is not complete), ValueError in min() (no vertex, no index), struct.error
\* in pack("<H") (an index below 0 or above 65535); and write_bytes raises
\* when the directory does not exist
write_gltf_raises(files, path, vertices, indices) ==
    \/ vertices = <<>>
    \/ indices = <<>>
    \/ Len(indices) % 3 # 0
    \/ \E k \in 1..Len(indices) : indices[k] \notin 0..(Len(vertices) - 1)
    \/ \E k \in 1..Len(indices) : indices[k] \notin 0..65535
    \/ ~ (path.parent \in DOMAIN files)

\* the files after write_gltf(path, mesh_name, vertices, indices): the
\* buffer goes to <stem>.bin next to path, then the document to path
write_gltf(files, path, mesh_name, vertices, indices) ==
    IF write_gltf_raises(files, path, vertices, indices) THEN files
    ELSE Only({
             WriteFile(WriteFile(files, PathKey(Path(path.parent, path.stem, ".bin")),
                                 Blob(built.buffer, built.size)),
                       PathKey(path),
                       Text(json_dumps(gltf_document(path, mesh_name, vertices, indices, built))))
             : built \in { gltf_buffer(vertices, indices) } })

\* bug: the prism is not merged into the agent
AgentMesh_octahedron_only == build_octahedron(560)

\* the five meshes of generate_meshes
AgentMesh ==
    merge_meshes(<< build_octahedron(560),
                    transform_mesh(build_prism(160, 550, 6), <<1000, 1000, 1000>>, <<0, 540, 0>>) >>)
LocationMesh == build_uv_sphere(1050, 24, 16)
AssetMesh ==
    merge_meshes(<< build_box(<<950, 600, 950>>),
                    transform_mesh(build_box(<<780, 220, 780>>), <<1000, 1000, 1000>>, <<0, 410, 0>>) >>)
PowerPlantMesh ==
    merge_meshes(<< build_prism(560, 1220, 8),
                    transform_mesh(build_prism(220, 720, 8), <<1000, 1000, 1000>>, <<0, 740, 0>>) >>)
PowerStorageMesh ==
    merge_meshes(<< build_prism(460, 1300, 18),
                    transform_mesh(build_uv_sphere(430, 16, 10), <<1000, 440, 1000>>, <<0, 650, 0>>),
                    transform_mesh(build_uv_sphere(430, 16, 10), <<1000, 440, 1000>>, <<0, -650, 0>>) >>)

GeneratedMeshes ==
    << << "agent_industrial", "AgentIndustrialMesh", AgentMesh >>,
       << "location_industrial", "LocationIndustrialMesh", LocationMesh >>,
       << "asset_industrial", "AssetIndustrialMesh", AssetMesh >>,
       << "power_plant_industrial", "PowerPlantIndustrialMesh", PowerPlantMesh >>,
       << "power_storage_industrial", "PowerStorageIndustrialMesh", PowerStorageMesh >> >>

\* the write_gltf calls of generate_meshes from call number i on; the first
\* that raises ends the run
RECURSIVE generate_loop(_, _, _)
generate_loop(files, mesh_dir, i) ==
    IF i > Len(GeneratedMeshes) THEN files
    ELSE LET path == Path(mesh_dir, GeneratedMeshes[i][1], ".gltf")
             mesh == GeneratedMeshes[i][3]
         IN  IF write_gltf_raises(files, path, mesh.vertices, mesh.indices) THEN files
             ELSE generate_loop(
                      write_gltf(files, path, GeneratedMeshes[i][2], mesh.vertices, mesh.indices),
                      mesh_dir, i + 1)

\* what generate_meshes(theme_dir / "meshes") leaves in a directory that
\* held nothing, computed once: the calls do not read the files present
GeneratedMeshDir == generate_loop(("meshes" :> Directory), "meshes", 1)

\* the files after generate_meshes: every file it writes is created or
\* replaced; its first write raises when the directory does not exist
generate_meshes(files) ==
    IF ~ ("meshes" \in DOMAIN files) THEN files
    ELSE GeneratedMeshDir @@ files

-----------------------------------------------------------------------------
(* Textures on disk: write_png, damage to a written file, and the readers *)

OutNone == [fn |-> "none"]

PngPaths == { TexturePath("agent", "base") }
\* the lengths a file is cut to and the offsets (from 1) of the bytes changed
TruncateLengths == { 0, 8, 32, 33 }
AlterOffsets == { 1, 8, 9, 13, 16, 17, 21, 24, 25, 34 }
\* the values of --profile and --min-texture-size tried
ProfileNames == { "v1", "v2" }
MinTextureArgs == { 0, 1, 2 }

\* texture_dir.mkdir(parents=True, exist_ok=True)
MakeTextureDir ==
    /\ ~ Exists("textures")
    /\ fs' = WriteFile(fs, "textures", Directory)
    /\ out' = OutNone
    /\ UNCHANGED <<wrote, nedits, notFileVars>>

WritePng ==
    \E size \in PngSizes, fn \in PixelFns, path \in PngPaths :
        LET raises == write_png_raises(fs, path, size[1], size[2], fn)
        IN  /\ fs' = write_png(fs, path, size[1], size[2], fn)
            /\ out' = [fn |-> "write_png", path |-> PathKey(path), raised |-> raises]
            /\ IF raises THEN UNCHANGED <<wrote, nedits>>
               ELSE /\ wrote' = [fn |-> "write_png", path |-> PathKey(path),
                                 width |-> size[1], height |-> size[2], pixel |-> fn,
                                 data |-> fs'[PathKey(path)].b]
                    /\ nedits' = 0
            /\ UNCHANGED notFileVars

\* bytes are removed from the end of the written file
Truncate ==
    /\ wrote.fn = "write_png"
    /\ nedits < MaxCorruptions
    /\ \E n \in TruncateLengths \cup { Len(fs[wrote.path].b) - 1 } :
          /\ n \in 0..(Len(fs[wrote.path].b) - 1)
          /\ fs' = WriteFile(fs, wrote.path, Bytes(SubSeq(fs[wrote.path].b, 1, n)))
    /\ nedits' = nedits + 1
    /\ out' = OutNone
    /\ UNCHANGED <<wrote, notFileVars>>

\* one byte of the written file gets another value (its low bit flips)
AlterByte ==
    /\ wrote.fn = "write_png"
    /\ nedits < MaxCorruptions
    /\ \E i \in AlterOffsets \cup { Len(fs[wrote.path].b) } :
          LET data == fs[wrote.path].b
          IN  /\ i \in 1..Len(data)
              /\ fs' = WriteFile(fs, wrote.path,
                         Bytes([data EXCEPT ![i] = IF data[i] % 2 = 0 THEN data[i] + 1
                                                   ELSE data[i] - 1]))
    /\ nedits' = nedits + 1
    /\ out' = OutNone
    /\ UNCHANGED <<wrote, notFileVars>>

ReadPngSize ==
    /\ \E path \in PngPaths :
          out' = [fn |-> "read_png_size", path |-> PathKey(path),
                  ret |-> read_png_size(fs, PathKey(path))]
    /\ UNCHANGED <<fs, wrote, nedits, notFileVars>>

\* a run of the validator on the theme directory
ValidatorMain ==
    /\ \E profile_name \in ProfileNames, arg \in MinTextureArgs :
          out' = validator_main(fs, profile_name, arg)
    /\ UNCHANGED <<fs, wrote, nedits, notFileVars>>

PngInit == MeshIdle /\ NoiseIdle /\ FilesIdle

PngNext ==
    \/ MakeTextureDir
    \/ WritePng
    \/ Truncate
    \/ AlterByte
    \/ ReadPngSize
    \/ ValidatorMain

SpecPng == PngInit /\ [][PngNext]_vars

\* the written file as it is now, and whether it still is what was written
WrittenPng == fs[wrote.path].b
PngDamaged == wrote.fn = "write_png" /\ nedits > 0 /\ WrittenPng # wrote.data
InvalidPngRecorded == \E k \in 1..Len(out.errors) :
                          out.errors[k].kind = "invalid png" /\ out.errors[k].path = wrote.path

\* C6: the file written by write_png(path, width, height, pixel_fn) is
\* accepted by read_png_size, which returns exactly (width, height).
C6_PngRoundTrip ==
    (wrote.fn = "write_png" /\ nedits = 0 /\ out.fn = "read_png_size" /\ out.path = wrote.path)
    => out.ret = Return(<< wrote.width, wrote.height >>)

C6_Witness ==
    /\ wrote.fn = "write_png" /\ nedits = 0
    /\ wrote.width = MaxDim /\ wrote.height = MaxDim /\ wrote.pixel = "coords"
    /\ out.fn = "read_png_size" /\ out.path = wrote.path

\* C7 as stated: whenever bytes were removed from the end of an
\* encoder-written PNG or any of its bytes was altered, read_png_size raises
\* and validate_theme_pack records 'invalid png' for that texture.
C7_DamagedPngRejected_AsClaimed ==
    PngDamaged
    => /\ out.fn = "read_png_size" /\ out.path = wrote.path => out.ret.raised
       /\ out.fn = "main" => ~ out.raised /\ InvalidPngRecorded

\* what read_png_size looks at: the length against 33, the eight signature
\* bytes and the four bytes of the first chunk's type
HeaderDamaged ==
    \/ Len(WrittenPng) < 33
    \/ SubSeq(WrittenPng, 1, 8) # SubSeq(wrote.data, 1, 8)
    \/ SubSeq(WrittenPng, 13, 16) # SubSeq(wrote.data, 13, 16)

\* C7 (amended): for a file obtained from an encoder-written PNG by removing
\* bytes from its end or altering bytes, read_png_size raises exactly when
\* fewer than 33 bytes remain or a byte at offsets 0..7 or 12..15 differs
\* from the written one; otherwise it returns the numbers held at offsets
\* 16..23.  A list validate_theme_pack returns has 'invalid png' for the
\* texture exactly when read_png_size raises.
C7_HeaderDamageRejected ==
    PngDamaged
    => /\ (out.fn = "read_png_size" /\ out.path = wrote.path)
          => /\ out.ret.raised <=> HeaderDamaged
             /\ ~ out.ret.raised
                => out.ret.v = << UnpackU32(SubSeq(WrittenPng, 17, 20)),
                                  UnpackU32(SubSeq(WrittenPng, 21, 24)) >>
       /\ (out.fn = "main" /\ ~ out.raised) => (InvalidPngRecorded <=> HeaderDamaged)

C7_Witness ==
    /\ PngDamaged /\ HeaderDamaged
    /\ out.fn = "main" /\ ~ out.raised /\ InvalidPngRecorded

-----------------------------------------------------------------------------
(* Meshes on disk: write_gltf, generate_meshes and the readers *)

\* the meshes exported: the agent mesh, one triangle, one degenerate
\* triangle on a single vertex; and three that are out of contract (an index
\* past the vertex list, no index, no vertex)
ExportMeshes ==
    { AgentMesh,
      MeshData(<< <<0, 0, 0>>, <<1000, 0, 0>>, <<0, 1000, 0>> >>, <<0, 1, 2>>),
      MeshData(<< <<0, 500, 0>> >>, <<0, 0, 0>>),
      MeshData(<< <<0, 0, 0>>, <<1000, 0, 0>>, <<0, 1000, 0>> >>, <<0, 1, 3>>),
      MeshData(<< <<0, 0, 0>>, <<1000, 0, 0>>, <<0, 1000, 0>> >>, <<>>),
      MeshData(<<>>, <<>>) }
\* the paths exported to: where profile v1 and profile v2 look for the agent
ExportPaths == { MeshPath("agent", PROFILES.v1), MeshPath("agent", PROFILES.v2) }
\* the paths validate_mesh is called on
ProbePaths == ExportPaths \cup { MeshPath("location", PROFILES.v1) }

\* mesh_dir.mkdir(parents=True, exist_ok=True)
MakeMeshDir ==
    /\ ~ Exists("meshes")
    /\ fs' = WriteFile(fs, "meshes", Directory)
    /\ out' = OutNone
    /\ UNCHANGED <<wrote, nedits, notFileVars>>

WriteGltf ==
    \E path \in ExportPaths, mesh \in ExportMeshes :
        LET raises == write_gltf_raises(fs, path, mesh.vertices, mesh.indices)
        IN  /\ fs' = write_gltf(fs, path, "AgentIndustrialMesh", mesh.vertices, mesh.indices)
            /\ out' = [fn |-> "write_gltf", path |-> PathKey(path), raised |-> raises,
                       vertices |-> mesh.vertices, indices |-> mesh.indices]
            /\ IF raises THEN UNCHANGED wrote
               ELSE wrote' = [fn |-> "write_gltf", path |-> path,
                              vertices |-> mesh.vertices, indices |-> mesh.indices]
            /\ UNCHANGED <<nedits, notFileVars>>

GenerateMeshes ==
    /\ fs' = generate_meshes(fs)
    /\ out' = [fn |-> "generate_meshes", raised |-> ~ Exists("meshes")]
    /\ IF Exists("meshes") THEN wrote' = [fn |-> "generate_meshes"] ELSE UNCHANGED wrote
    /\ UNCHANGED <<nedits, notFileVars>>

ValidateMesh ==
    /\ \E path \in ProbePaths :
          out' = [fn |-> "validate_mesh", path |-> PathKey(path), ret |-> validate_mesh(fs, path)]
    /\ UNCHANGED <<fs, wrote, nedits, notFileVars>>

ExportInit == MeshIdle /\ NoiseIdle /\ FilesIdle

ExportNext ==
    \/ MakeMeshDir
    \/ WriteGltf
    \/ GenerateMeshes
    \/ ValidateMesh
    \/ ValidatorMain

SpecExport == ExportInit /\ [][ExportNext]_vars

\* the 'vertex count' entries of the list for the agent, under either name
AgentPaths == { PathKey(MeshPath("agent", PROFILES.v1)), PathKey(MeshPath("agent", PROFILES.v2)) }
AgentVertexErrors ==
    { k \in 1..Len(out.errors) :
        out.errors[k].kind = "vertex count" /\ out.errors[k].path \in AgentPaths }
\* the last write was generate_meshes: the meshes directory is as generated,
\* but for an agent_industrial_v2.gltf exported there before
Generated == wrote.fn = "generate_meshes"
\* the document write_gltf makes of the agent mesh
AgentExport(profile) ==
    Text(json_dumps(gltf_document(MeshPath("agent", profile), "AgentIndustrialMesh",
                                  AgentMesh.vertices, AgentMesh.indices,
                                  gltf_buffer(AgentMesh.vertices, AgentMesh.indices))))

\* C5 as stated: the generated agent mesh has 20 vertices; validating it
\* under profile v1 gives no vertex-budget error for agent, and validating
\* it under profile v2 fails with a list that has exactly one vertex-budget
\* violation for agent.
C5_AgentBudget_AsClaimed ==
    /\ Generated => Len(AgentMesh.vertices) = 20
    /\ (Generated /\ out.fn = "main")
       => /\ ~ out.raised
          /\ out.profile = "v1" => AgentVertexErrors = {}
          /\ out.profile = "v2" => out.exit = 1 /\ Cardinality(AgentVertexErrors) = 1

\* C5 (amended): the generated agent mesh has 20 vertices and is written to
\* meshes/agent_industrial.gltf, where validate_mesh counts 20; validating
\* the generated directory under v1 gives no vertex-budget error for agent.
\* Profile v2 reads meshes/agent_industrial_v2.gltf, which generate_meshes
\* does not write: while that file is missing the v2 list has 'missing mesh
\* file' for it and no vertex-budget violation for agent, and when the
\* 20-vertex agent mesh is exported to that path the v2 list has exactly
\* one, quoting 20 < 48.
C5_AgentBudget ==
    /\ Generated
       => /\ Len(AgentMesh.vertices) = 20
          /\ fs[PathKey(MeshPath("agent", PROFILES.v1))] = AgentExport(PROFILES.v1)
          /\ (out.fn = "validate_mesh" /\ out.path = PathKey(MeshPath("agent", PROFILES.v1)))
             => out.ret = Return(<< 20, <<>> >>)
          /\ (out.fn = "main" /\ out.profile = "v1")
             => ~ out.raised /\ AgentVertexErrors = {}
    /\ (out.fn = "main" /\ out.profile = "v2" /\ ~ out.raised)
       => LET key == PathKey(MeshPath("agent", PROFILES.v2))
          IN  /\ ~ Exists(key)
                 => /\ AgentVertexErrors = {}
                    /\ \E k \in 1..Len(out.errors) :
                          out.errors[k] = Error("missing mesh file", key, "", <<>>)
              /\ (Exists(key) /\ fs[key] = AgentExport(PROFILES.v2))
                 => /\ out.exit = 1
                    /\ Cardinality(AgentVertexErrors) = 1
                    /\ \A k \in AgentVertexErrors :
                          out.errors[k] = Error("vertex count", key, "", << 20, 48 >>)

C5_Witness ==
    /\ Generated
    /\ out.fn = "main" /\ out.profile = "v2" /\ ~ out.raised
    /\ Exists(PathKey(MeshPath("agent", PROFILES.v2)))
    /\ fs[PathKey(MeshPath("agent", PROFILES.v2))] = AgentExport(PROFILES.v2)
    /\ Cardinality(AgentVertexErrors) = 1

\* a mesh write_gltf is specified for: at least one vertex, at least one
\* triangle, every index that of a vertex and within 16 bits
Exportable(vertices, indices) ==
    /\ Len(vertices) >= 1
    /\ Len(indices) >= 3 /\ Len(indices) % 3 = 0
    /\ \A k \in 1..Len(indices) : indices[k] \in 0..(Len(vertices) - 1) /\ indices[k] <= 65535

\* C8: for every mesh with at least one vertex and one triangle whose
\* indices fit in 16 bits, write_gltf(path, name, vertices, indices) into an
\* existing directory completes, and after it validate_mesh(path) returns
\* len(vertices) with an empty error list, and <stem>.bin exists in the same
\* directory and is not empty.
C8_GltfRoundTrip ==
    /\ (out.fn = "write_gltf" /\ Exportable(out.vertices, out.indices) /\ Exists("meshes"))
       => ~ out.raised
    /\ (wrote.fn = "write_gltf" /\ Exportable(wrote.vertices, wrote.indices))
       => LET bin == PathKey(Path(wrote.path.parent, wrote.path.stem, ".bin"))
          IN  /\ Exists(bin) /\ fs[bin].t = "blob" /\ fs[bin].size > 0
              /\ (out.fn = "validate_mesh" /\ out.path = PathKey(wrote.path))
                 => out.ret = Return(<< Len(wrote.vertices), <<>> >>)

C8_Witness ==
    /\ wrote.fn = "write_gltf" /\ wrote.vertices = AgentMesh.vertices
    /\ out.fn = "validate_mesh" /\ out.path = PathKey(wrote.path)
    /\ out.ret = Return(<< 20, <<>> >>)

-----------------------------------------------------------------------------
(* Theme packs put together by hand, and the validator run on them *)

\* the entities and channels whose files are put; the validator looks for
\* the files of all five entities and all four channels
PackEntities == { "agent", "power_storage" }
PackChannels == { "base", "emissive" }
PackPresets == { "industrial_default.env", "industrial_v2_glossy.env" }

\* a glTF document with the one path validate_mesh follows
MeshDocument(count, more) ==
    JObj(<< << "meshes", JArr(<< JObj(<< << "primitives", JArr(<< JObj(<<
                  << "attributes", JObj(<< << "POSITION", JInt(0) >> >>) >> >>) >>) >> >>) >>) >>,
            << "accessors", JArr(<< JObj(<< << "count", count >> >>) >>) >> >> \o more)

\* the mesh files put: a document whose buffer is mesh.bin, one without
\* buffers and with few vertices, text that is no JSON, a document without
\* accessors, and two whose "buffers" is not a list of objects with a
\* string uri
MeshFixtures ==
    { Text(json_dumps(MeshDocument(JInt(1200),
               << << "buffers", JArr(<< JObj(<< << "uri", JStr("mesh.bin") >> >>) >>) >> >>))),
      Text(json_dumps(MeshDocument(JStr("7"), <<>>))),
      Text(<< Tok("{"), Tok("junk") >>),
      Text(json_dumps(JObj(<< << "meshes", JArr(<<>>) >> >>))),
      Text(json_dumps(MeshDocument(JInt(1200), << << "buffers", JInt(5) >> >>))),
      Text(json_dumps(MeshDocument(JInt(1200),
               << << "buffers", JArr(<< JObj(<< << "uri", JInt(7) >> >>) >>) >> >>))) }

\* the first 33 bytes of a PNG file of the given size: all that
\* read_png_size looks at
PngHeader(width, height) ==
    PngSignature \o chunk(IHDR, PackU32(width) \o PackU32(height) \o <<8, 2, 0, 0, 0>>)

\* the texture files put: 256x256, 512x256, two files of the encoder (1x1
\* and 0x1) and an empty file
TextureFixtures ==
    { Bytes(PngHeader(256, 256)),
      Bytes(PngHeader(512, 256)),
      Bytes(png_bytes(1, 1, "coords")),
      Bytes(png_bytes(0, 1, "coords")),
      Bytes(<<>>) }

MakeDir ==
    /\ \E directory \in { "meshes", "textures", "presets" } :
          /\ ~ Exists(directory)
          /\ fs' = WriteFile(fs, directory, Directory)
    /\ out' = OutNone
    /\ UNCHANGED <<wrote, nedits, notFileVars>>

PutPreset ==
    /\ nedits < MaxEdits
    /\ Exists("presets")
    /\ \E preset \in PackPresets : fs' = WriteFile(fs, "presets/" \o preset, Bytes(<<>>))
    /\ nedits' = nedits + 1
    /\ out' = OutNone
    /\ UNCHANGED <<wrote, notFileVars>>

PutMesh ==
    /\ nedits < MaxEdits
    /\ Exists("meshes")
    /\ \E entity \in PackEntities, profile_name \in ProfileNames, content \in MeshFixtures :
          fs' = WriteFile(fs, PathKey(MeshPath(entity, PROFILES[profile_name])), content)
    /\ nedits' = nedits + 1
    /\ out' = OutNone
    /\ UNCHANGED <<wrote, notFileVars>>

PutBuffer ==
    /\ nedits < MaxEdits
    /\ Exists("meshes")
    /\ fs' = WriteFile(fs, "meshes/mesh.bin", Blob(<< ByteCell(0) >>, 1))
    /\ nedits' = nedits + 1
    /\ out' = OutNone
    /\ UNCHANGED <<wrote, notFileVars>>

PutTexture ==
    /\ nedits < MaxEdits
    /\ Exists("textures")
    /\ \E entity \in PackEntities, channel \in PackChannels, content \in TextureFixtures :
          fs' = WriteFile(fs, PathKey(TexturePath(entity, channel)), content)
    /\ nedits' = nedits + 1
    /\ out' = OutNone
    /\ UNCHANGED <<wrote, notFileVars>>

PackInit == MeshIdle /\ NoiseIdle /\ FilesIdle

PackNext ==
    \/ MakeDir
    \/ PutPreset
    \/ PutMesh
    \/ PutBuffer
    \/ PutTexture
    \/ ValidatorMain

SpecPack == PackInit /\ [][PackNext]_vars

\* the list has an entry that names the path
Reported(key) == \E k \in 1..Len(out.errors) : out.errors[k].path = key
ReportedAs(kind, key) ==
    \E k \in 1..Len(out.errors) : out.errors[k].kind = kind /\ out.errors[k].path = key

EntityNames == { ENTITIES[i] : i \in 1..Len(ENTITIES) }
ChannelNames == { TEXTURE_CHANNELS[i] : i \in 1..Len(TEXTURE_CHANNELS) }

\* the artifacts of the pack that fail a check of the run recorded in out,
\* each looked at on its own
MeshFails(entity) ==
    LET path == MeshPath(entity, PROFILES[out.profile])
        result == validate_mesh(fs, path)
    IN  \/ ~ Exists(PathKey(path))
        \/ result.raised
        \/ result.v[2] # <<>>
        \/ result.v[1] < PROFILES[out.profile].min_vertices[entity]
TextureFails(entity, channel) ==
    LET key == PathKey(TexturePath(entity, channel))
        size == read_png_size(fs, key)
    IN  \/ ~ Exists(key)
        \/ size.raised
        \/ size.v[1] < out.min_texture_size \/ size.v[2] < out.min_texture_size
        \/ size.v[1] # size.v[2]
FailingArtifacts ==
    { directory \in { "meshes", "textures", "presets" } : ~ Exists(directory) }
    \cup ({ "presets/" \o PROFILES[out.profile].preset_files[i] : i \in 1..3 } \ DOMAIN fs)
    \cup { PathKey(MeshPath(entity, PROFILES[out.profile])) :
               entity \in { e \in EntityNames : MeshFails(e) } }
    \cup { PathKey(TexturePath(pair[1], pair[2])) :
               pair \in { p \in EntityNames \X ChannelNames : TextureFails(p[1], p[2]) } }

\* C4 as stated: validate_theme_pack accumulates failures; a failure of one
\* check never suppresses the checks of the other artifacts, so the list it
\* returns has an error for every failing artifact of the pack, and main
\* exits with 0 if and only if the list is empty and with 1 otherwise.
C4_Accumulates_AsClaimed ==
    out.fn = "main"
    => /\ ~ out.raised
       /\ \A key \in FailingArtifacts : Reported(key)
       /\ out.exit = (IF out.errors = <<>> THEN 0 ELSE 1)

\* C9 as stated: for every readable texture PNG whose header width differs
\* from its height, validate_theme_pack records 'texture must be square' for
\* that file, whether or not the file is also below the minimum size.
C9_NonSquareFlagged_AsClaimed ==
    out.fn = "main"
    => \A entity \in EntityNames, channel \in ChannelNames :
          LET key == PathKey(TexturePath(entity, channel))
              size == read_png_size(fs, key)
          IN  (Exists(key) /\ ~ size.raised /\ size.v[1] # size.v[2])
              => ~ out.raised /\ ReportedAs("texture must be square", key)

\* the mesh files of the run recorded in out whose content fails a format
\* check of validate_mesh, and the texture files read_png_size rejects
MalformedMesh(entity) ==
    LET path == MeshPath(entity, PROFILES[out.profile])
        gltf == json_loads(fs, PathKey(path))
    IN  /\ Exists(PathKey(path))
        /\ \/ gltf.j = "raise"
           \/ position_count(gltf).j = "raise"
           \/ validate_mesh(fs, path).raised
MalformedTexture(entity, channel) ==
    /\ Exists(PathKey(TexturePath(entity, channel)))
    /\ read_png_size(fs, PathKey(TexturePath(entity, channel))).raised

\* C11 as stated: parse and format errors never abort the run.  Whatever
\* the content of a mesh or texture file (bad PNG signature, no IHDR, text
\* that is no JSON, no POSITION accessor, other malformed glTF fields),
\* validate_theme_pack returns its list, the list has an error naming each
\* such file, a failed mesh counts as 0 vertices, and the artifacts after it
\* are still checked.
C11_NeverAborts_AsClaimed ==
    out.fn = "main"
    => /\ ~ out.raised
       /\ \A entity \in EntityNames :
             MalformedMesh(entity)
             => LET key == PathKey(MeshPath(entity, PROFILES[out.profile]))
                IN  /\ \/ ReportedAs("failed to parse gltf json", key)
                       \/ ReportedAs("missing POSITION accessor/count", key)
                    /\ \E k \in 1..Len(out.errors) :
                          /\ out.errors[k].kind = "vertex count"
                          /\ out.errors[k].path = key
                          /\ out.errors[k].detail[1] = 0
       /\ \A entity \in EntityNames, channel \in ChannelNames :
             MalformedTexture(entity, channel)
             => ReportedAs("invalid png", PathKey(TexturePath(entity, channel)))

-----------------------------------------------------------------------------
(* write_gltf step by step.  The call packs the four blobs, which is where  *)
(* it raises, then opens <stem>.bin and writes the buffer, then opens the   *)
(* document and writes the text; a reader sees a file that is being written *)
(* empty or in part.  In this specification wrote is the write_gltf call    *)
(* last begun: its arguments, how many of its write events are done, and    *)
(* its state: running, returned, refused (it raised before its first write) *)
(* or failed (a write raised, or the process was stopped).                  *)

\* the greatest number struct.pack("<H") takes
MaxU16 == 65535

\* a mesh of n vertices (n >= 3) with one triangle that names the last one
WideMesh(n) ==
    MeshData(AsList([k \in 1..n |-> << (k % 2) * 1000, (k % 3) * 500, 0 >>]), << 0, 1, n - 1 >>)

\* the meshes exported, by name: the generated agent mesh, a triangle, a
\* triangle with an index below 0, 65536 vertices (greatest index 65535)
\* and 65537 vertices (greatest index 65536)
StepMeshNames == { "agent", "triangle", "negative", "wide", "too_wide" }
StepMesh(name) ==
    CASE name = "agent" -> AgentMesh
      [] name = "triangle" -> MeshData(<< <<0, 0, 0>>, <<1000, 0, 0>>, <<0, 1000, 0>> >>, <<0, 1, 2>>)
      [] name = "negative" -> MeshData(<< <<0, 0, 0>>, <<1000, 0, 0>>, <<0, 1000, 0>> >>, <<0, 1, -1>>)
      [] name = "wide" -> WideMesh(MaxU16 + 1)
      [] name = "too_wide" -> WideMesh(MaxU16 + 2)

\* the content of the two files write_gltf writes
gltf_files(path, mesh_name, vertices, indices) ==
    Only({ [ bin |-> Blob(built.buffer, built.size),
             doc |-> Text(json_dumps(gltf_document(path, mesh_name, vertices, indices, built))) ]
           : built \in { gltf_buffer(vertices, indices) } })

\* bug: the document is written before the buffer
write_order_document_first == << "doc", "bin" >>

\* the order of the two writes: write_bytes of the buffer, then write_text
write_order == << "bin", "doc" >>

\* what a reader may see of one write: the file opened (created or emptied),
\* written in part (the text only), written in full
WriteStages == [ bin |-> << "open", "full" >>, doc |-> << "open", "part", "full" >> ]

\* the write events of one call, in order
WriteEvents ==
    [k \in 1..Len(WriteStages[write_order[1]]) |-> << write_order[1], WriteStages[write_order[1]][k] >>]
    \o [k \in 1..Len(WriteStages[write_order[2]]) |-> << write_order[2], WriteStages[write_order[2]][k] >>]

\* a file as a reader sees it at a stage of its write
Staged(content, stage) ==
    CASE stage = "full" -> content
      [] stage = "open" /\ content.t = "blob" -> Blob(<<>>, 0)
      [] stage = "open" /\ content.t = "text" -> Text(<<>>)
      [] stage = "part" -> Text(SubSeq(content.tokens, 1, Len(content.tokens) \div 2))

\* the files after write event number k of the call
write_event(files, this, k) ==
    LET mesh == StepMesh(this.mesh)
        which == WriteEvents[k][1]
        key == IF which = "bin" THEN PathKey(Path(this.path.parent, this.path.stem, ".bin"))
               ELSE PathKey(this.path)
    IN  IF WriteEvents[k][2] = "open"
        THEN WriteFile(files, key, Staged(IF which = "bin" THEN Blob(<<>>, 0) ELSE Text(<<>>), "open"))
        ELSE Only({ WriteFile(files, key, Staged(written[which], WriteEvents[k][2]))
                    : written \in { gltf_files(this.path, "AgentIndustrialMesh",
                                               mesh.vertices, mesh.indices) } })

InFlight == wrote.fn = "write_gltf" /\ wrote.state = "running"
Returned == wrote.fn = "write_gltf" /\ wrote.state = "returned"

\* what a call reports when it ends: its arguments, whether it raised, and
\* how many write events it had done
Ended(this, raised) ==
    [ fn |-> "write_gltf", path |-> PathKey(this.path), mesh |-> this.mesh,
      nvertices |-> this.nvertices, indices |-> this.indices,
      raised |-> raised, written |-> this.at ]

\* write_gltf is called: lines 315-381 run, and raise or leave the call at
\* its first write.  The wide meshes are exported last, into the directory
\* as main has just created it.
BeginExport ==
    /\ ~ InFlight
    /\ nedits < MaxExports
    /\ \E path \in ExportPaths, name \in StepMeshNames :
          /\ name \in { "wide", "too_wide" }
             => fs = ("meshes" :> Directory) /\ nedits + 1 = MaxExports
          /\ \E mesh \in { StepMesh(name) } :
                LET this == [ fn |-> "write_gltf", state |-> "running", path |-> path,
                              mesh |-> name, nvertices |-> Len(mesh.vertices),
                              indices |-> mesh.indices, at |-> 0 ]
                IN  IF write_gltf_raises(fs, path, mesh.vertices, mesh.indices)
                    THEN /\ out' = Ended(this, TRUE)
                         /\ wrote' = [this EXCEPT !.state = "refused"]
                    ELSE /\ out' = OutNone
                         /\ wrote' = this
    /\ nedits' = nedits + 1
    /\ UNCHANGED <<fs, notFileVars>>

\* the next write event of the call in progress.  The validator changes no
\* file, so what the call does after a validator run is what it does
\* without one: the step is taken from the states with no run recorded.
ExportStep ==
    /\ InFlight
    /\ out = OutNone
    /\ wrote.at < Len(WriteEvents)
    /\ fs' = write_event(fs, wrote, wrote.at + 1)
    /\ wrote' = [wrote EXCEPT !.at = wrote.at + 1]
    /\ UNCHANGED <<out, nedits, notFileVars>>

\* the call returns after its last write event
ExportReturn ==
    /\ InFlight
    /\ wrote.at = Len(WriteEvents)
    /\ wrote' = [wrote EXCEPT !.state = "returned"]
    /\ out' = Ended(wrote, FALSE)
    /\ UNCHANGED <<fs, nedits, notFileVars>>

\* a write raises OSError (or the process is stopped) where the call stands
ExportFail ==
    /\ InFlight
    /\ wrote.at < Len(WriteEvents)
    /\ wrote' = [wrote EXCEPT !.state = "failed"]
    /\ out' = Ended(wrote, TRUE)
    /\ UNCHANGED <<fs, nedits, notFileVars>>

StepsInit == MeshIdle /\ NoiseIdle /\ FilesIdle

StepsNext ==
    \/ MakeMeshDir
    \/ BeginExport
    \/ ExportStep
    \/ ExportReturn
    \/ ExportFail
    \/ ValidateMesh

SpecSteps == StepsInit /\ [][StepsNext]_vars

-----------------------------------------------------------------------------
(* The index values in the buffer *)

\* the cell that holds the byte at an offset, in a buffer whose float cells
\* all come before its byte cells; 0 when the offset is inside a float
CellAt(cells, offset) ==
    LET floats == Cardinality({ k \in 1..Len(cells) : cells[k].c = "f32" })
    IN  IF offset >= 4 * floats THEN floats + (offset - 4 * floats) + 1
        ELSE IF offset % 4 = 0 THEN (offset \div 4) + 1 ELSE 0

\* struct.unpack("<H") of the two bytes at an offset
ReadU16(cells, offset) ==
    Only({ cells[at].b + 256 * cells[at + 1].b : at \in { CellAt(cells, offset) } })

\* the values a reader of the document at path finds for the accessor the
\* primitive names as its indices: count unsigned shorts from the byteOffset
\* of the accessor's buffer view, in the file the buffer's uri names
StoredIndices(files, path) ==
    LET gltf == json_loads(files, PathKey(path))
        primitive == GetItem(GetItem(GetItem(GetItem(gltf, JStr("meshes")), JInt(0)),
                                     JStr("primitives")), JInt(0))
        accessor == GetItem(GetItem(gltf, JStr("accessors")), GetItem(primitive, JStr("indices")))
        view == GetItem(GetItem(gltf, JStr("bufferViews")), GetItem(accessor, JStr("bufferView")))
        buffer == GetItem(GetItem(gltf, JStr("buffers")), GetItem(view, JStr("buffer")))
        cells == files[path.parent \o "/" \o GetItem(buffer, JStr("uri")).s].cells
    IN  [k \in 1..GetItem(accessor, JStr("count")).n |->
            ReadU16(cells, GetItem(view, JStr("byteOffset")).n + 2 * (k - 1))]

\* the call has just returned: out is its report
JustReturned == Returned /\ out.fn = "write_gltf" /\ ~ out.raised

\* C12 as stated: write_gltf never silently truncates an index: every index
\* value stored in the buffer equals the mesh's index value and fits in 16
\* bits, and if the mesh has more than 65535 vertices the export fails with
\* an error before either the .bin or the .gltf file is written.
C12_NoTruncation_AsClaimed ==
    /\ JustReturned
       => /\ AsList(StoredIndices(fs, wrote.path)) = wrote.indices
          /\ \A k \in 1..Len(wrote.indices) : wrote.indices[k] \in 0..MaxU16
    /\ (wrote.fn = "write_gltf" /\ wrote.nvertices > MaxU16)
       => wrote.at = 0 /\ wrote.state # "returned"

\* C12 (amended): write_gltf never silently truncates an index: every index
\* value stored in the buffer equals the mesh's index value and fits in 16
\* bits, and whenever some index value is outside 0..65535 the export fails
\* with an error before either the .bin or the .gltf file is written.  With
\* every index that of a vertex this takes a mesh of more than 65536
\* vertices: a mesh of 65536 vertices, whose greatest index is 65535,
\* exceeds 65535 vertices and passes the packing without an error.
C12_NoTruncation ==
    /\ JustReturned
       => /\ AsList(StoredIndices(fs, wrote.path)) = wrote.indices
          /\ \A k \in 1..Len(wrote.indices) : wrote.indices[k] \in 0..MaxU16
    /\ (wrote.fn = "write_gltf" /\ \E k \in 1..Len(wrote.indices) : wrote.indices[k] \notin 0..MaxU16)
       => /\ wrote.state = "refused" /\ wrote.at = 0
          /\ out.fn = "write_gltf" => out.raised /\ out.written = 0
    /\ (wrote.fn = "write_gltf" /\ wrote.mesh = "wide") => wrote.state # "refused"

\* an export refused for nothing but an index of 65536
C12_Witness ==
    /\ wrote.fn = "write_gltf" /\ wrote.state = "refused" /\ wrote.at = 0
    /\ wrote.nvertices = MaxU16 + 2
    /\ \A k \in 1..Len(wrote.indices) : wrote.indices[k] \in 0..(wrote.nvertices - 1)
    /\ \E k \in 1..Len(wrote.indices) : wrote.indices[k] = MaxU16 + 1
    /\ out.fn = "write_gltf" /\ out.raised
    /\ fs = ("meshes" :> Directory)

\* C18: write_gltf writes <stem>.bin before the document, so, starting from
\* a directory that holds neither file, at every point of an export (a
\* failure between or within the two writes included) the .gltf file never
\* exists without the .bin file it names, and a validator run at any such
\* point (validate_mesh, which validate_theme_pack calls for the mesh) never
\* reports 'missing buffer file' for the mesh.
C18_BufferBeforeDocument ==
    /\ \A path \in ExportPaths :
          Exists(PathKey(path)) => Exists(PathKey(Path(path.parent, path.stem, ".bin")))
    /\ out.fn = "validate_mesh"
       => /\ ~ out.ret.raised
          /\ \A k \in 1..Len(out.ret.v[2]) : out.ret.v[2][k].kind # "missing buffer file"

\* the validator run on a directory where an export was stopped with its
\* document written in part
C18_Witness ==
    /\ wrote.fn = "write_gltf" /\ wrote.state = "failed"
    /\ wrote.at > 0 /\ WriteEvents[wrote.at] = << "doc", "part" >>
    /\ out.fn = "validate_mesh" /\ out.path = PathKey(wrote.path)
    /\ out.ret = Return(<< 0, << Error("failed to parse gltf json", out.path, "exc", <<>>) >> >>)

-----------------------------------------------------------------------------
(* The generator's run: generate_textures and main.  A texture is 256 by    *)
(* 256 pixels; its file is kept as the bytes up to the end of IHDR, which   *)
(* is all a reader of the size looks at, and the rest (IDAT, IEND) as the   *)
(* pixel function and the arguments that fix it.                            *)

\* the default of the size parameter of the four make_*_texture functions
TextureSize == 256

\* metallic and roughness in units of 0.001
Palette ==
    [ agent |-> [ base_a |-> <<84, 118, 138>>, base_b |-> <<173, 209, 228>>,
                  emissive |-> <<72, 182, 255>>, metallic |-> 580, roughness |-> 460, seed |-> 11 ],
      location |-> [ base_a |-> <<54, 70, 80>>, base_b |-> <<124, 149, 162>>,
                     emissive |-> <<44, 132, 184>>, metallic |-> 340, roughness |-> 690, seed |-> 23 ],
      asset |-> [ base_a |-> <<86, 92, 84>>, base_b |-> <<166, 156, 118>>,
                  emissive |-> <<198, 142, 52>>, metallic |-> 720, roughness |-> 410, seed |-> 31 ],
      power_plant |-> [ base_a |-> <<96, 74, 66>>, base_b |-> <<183, 127, 97>>,
                        emissive |-> <<255, 122, 64>>, metallic |-> 630, roughness |-> 390, seed |-> 47 ],
      power_storage |-> [ base_a |-> <<53, 68, 91>>, base_b |-> <<117, 142, 182>>,
                          emissive |-> <<84, 152, 255>>, metallic |-> 520, roughness |-> 360, seed |-> 59 ] ]
PaletteOrder == << "agent", "location", "asset", "power_plant", "power_storage" >>

\* the file write_png(path, size, size, pixel) leaves for the pixel function
\* of the named maker called with args
Texture(size, maker, args) ==
    [t |-> "bytes", b |-> PngHeader(size, size), rest |-> [pixel |-> maker, args |-> args]]

\* make_base_texture, make_normal_texture, make_mr_texture and
\* make_emissive_texture: the pixel values are clamped into 0..255, so the
\* write raises only when the directory does not exist
make_texture(files, path, maker, args) ==
    IF ~ (path.parent \in DOMAIN files) THEN files
    ELSE WriteFile(files, PathKey(path), Texture(TextureSize, maker, args))

\* the four calls generate_textures makes for one entity: channel, maker
\* and arguments
texture_calls(entity) ==
    LET config == Palette[entity]
    IN  << << "base", "make_base_texture", << config.base_a, config.base_b, config.seed >> >>,
           << "normal", "make_normal_texture", << config.seed + 5 >> >>,
           << "metallic_roughness", "make_mr_texture",
              << config.metallic, config.roughness, config.seed + 9 >> >>,
           << "emissive", "make_emissive_texture", << config.emissive, config.seed + 13 >> >> >>

\* the loop of generate_textures from call number j of entity number i on;
\* the first call that raises ends the run
RECURSIVE texture_loop(_, _, _, _)
texture_loop(files, texture_dir, i, j) ==
    IF i > Len(PaletteOrder) THEN files
    ELSE IF j > 4 THEN texture_loop(files, texture_dir, i + 1, 1)
    ELSE LET this == texture_calls(PaletteOrder[i])[j]
             path == Path(texture_dir, PaletteOrder[i] \o "_" \o this[1], ".png")
         IN  IF ~ (path.parent \in DOMAIN files) THEN files
             ELSE texture_loop(make_texture(files, path, this[2], this[3]), texture_dir, i, j + 1)

generate_textures(files) == texture_loop(files, "textures", 1, 1)

\* path.mkdir(parents=True, exist_ok=True)
mkdir(files, key) == IF key \in DOMAIN files THEN files ELSE WriteFile(files, key, Directory)

\* bug: the meshes are not generated
generator_main_without_meshes(files) == generate_textures(mkdir(mkdir(files, "meshes"), "textures"))

\* the generator's main: both directories are made, then the meshes and
\* the textures; with the directories made no write raises
generator_main(files) == generate_textures(generate_meshes(mkdir(mkdir(files, "meshes"), "textures")))

GenerateTextures ==
    /\ fs' = generate_textures(fs)
    /\ out' = [fn |-> "generate_textures", raised |-> ~ Exists("textures")]
    /\ UNCHANGED <<wrote, nedits, notFileVars>>

GeneratorMain ==
    /\ fs' = generator_main(fs)
    /\ out' = [fn |-> "generator_main", raised |-> FALSE, exit |-> 0,
               replaced |-> { key \in DOMAIN fs : fs[key] # fs'[key] }]
    /\ UNCHANGED <<wrote, nedits, notFileVars>>

\* what the theme directory may hold before a run: files left at two of
\* the paths the generator writes to and at one it does not write to
StaleFiles ==
    { << MeshPath("agent", PROFILES.v1), Text(<< Tok("{"), Tok("junk") >>) >>,
      << TexturePath("agent", "base"), Bytes(<<>>) >>,
      << Path("textures", "old", ".png"), Bytes(PngHeader(1, 2)) >> }

PutStale ==
    /\ nedits < MaxEdits
    /\ \E stale \in StaleFiles :
          /\ Exists(stale[1].parent)
          /\ fs' = WriteFile(fs, PathKey(stale[1]), stale[2])
    /\ nedits' = nedits + 1
    /\ out' = OutNone
    /\ UNCHANGED <<wrote, notFileVars>>

\* the validator run with --profile v1, without --min-texture-size or
\* with the value 256
ValidateV1 ==
    /\ \E arg \in { 0, TextureSize } : out' = validator_main(fs, "v1", arg)
    /\ UNCHANGED <<fs, wrote, nedits, notFileVars>>

GenInit == MeshIdle /\ NoiseIdle /\ FilesIdle

\* the theme directory holds what was put there before, by hand or by a
\* run; the generator and the validator run on it in any order
GenNext ==
    \/ MakeMeshDir
    \/ MakeTextureDir
    \/ PutStale
    \/ GenerateMeshes
    \/ GenerateTextures
    \/ GeneratorMain
    \/ ValidateV1

SpecGen == GenInit /\ [][GenNext]_vars

\* what one complete run leaves in an empty location
CleanRun == generator_main(<<>>)
\* the paths generate_meshes and generate_textures write to
MeshKeys ==
    { PathKey(Path("meshes", GeneratedMeshes[i][1], suffix)) :
        i \in 1..Len(GeneratedMeshes), suffix \in { ".gltf", ".bin" } }
TextureKeys ==
    { PathKey(Path("textures", PaletteOrder[i] \o "_" \o texture_calls(PaletteOrder[i])[j][1], ".png")) :
        i \in 1..Len(PaletteOrder), j \in 1..4 }
\* the files at the given paths are those of the run into an empty location
AsCleanRun(keys) == \A key \in keys : Exists(key) /\ fs[key] = CleanRun[key]
GeneratorCalls == { "generate_meshes", "generate_textures", "generator_main" }

\* C13: generation is deterministic and idempotent.  Whatever the theme
\* directory held before (nothing, stale files at the generated paths, other
\* files, the output of an earlier run), a run of generate_meshes, of
\* generate_textures or of both leaves at every path it writes the file that
\* the run into an empty location leaves there, so any two runs leave
\* identical files; and a run that directly follows a run of the same
\* function changes nothing in the directory.
C13_DeterministicIdempotent ==
    /\ [] /\ (out.fn = "generate_meshes" /\ ~ out.raised) => AsCleanRun(MeshKeys)
          /\ (out.fn = "generate_textures" /\ ~ out.raised) => AsCleanRun(TextureKeys)
          /\ out.fn = "generator_main" => AsCleanRun(MeshKeys \cup TextureKeys)
    /\ [][ \A f \in GeneratorCalls :
              (out.fn = f /\ ~ out.raised /\ out'.fn = f /\ ~ out'.raised) => fs' = fs ]_vars

\* a complete run replaced a stale texture and a stale document, and left
\* the file that is not one of its own
C13_Witness ==
    /\ out.fn = "generator_main"
    /\ { PathKey(TexturePath("agent", "base")), PathKey(MeshPath("agent", PROFILES.v1)) } \subseteq out.replaced
    /\ AsCleanRun(MeshKeys \cup TextureKeys)
    /\ Cardinality(MeshKeys \cup TextureKeys) = 30

\* the validator ran with profile v1 and threshold 256 on what one run of
\* the generator into an empty location left
ValidatedCleanRun ==
    /\ out.fn = "main" /\ out.profile = "v1" /\ out.min_texture_size = 256
    /\ fs = CleanRun

\* C19: a run of the generator into an empty location creates meshes/ and
\* textures/ with the 10 mesh files and the 20 textures and nothing else.
\* The validator, run on it with profile v1 and minimum texture size 256,
\* counts 20, 425, 16, 36 and 412 vertices, reads every texture as 256 by
\* 256, and lists four errors and no other: the presets directory and the
\* three preset files of v1 are missing.  It exits with status 1.
C19_GeneratedPackUnderV1 ==
    ValidatedCleanRun
    => /\ DOMAIN fs = { "meshes", "textures" } \cup MeshKeys \cup TextureKeys
       /\ Cardinality(MeshKeys) = 10 /\ Cardinality(TextureKeys) = 20
       /\ ~ out.raised
       /\ out.exit = 1
       /\ out.errors = << Error("missing directory", "presets", "", <<>>) >>
                       \o [i \in 1..3 |-> Error("missing preset file",
                                                "presets/" \o PROFILES.v1.preset_files[i], "", <<>>)]
       /\ [i \in 1..5 |-> validate_mesh(fs, MeshPath(ENTITIES[i], PROFILES.v1))]
            = [i \in 1..5 |-> Return(<< << 20, 425, 16, 36, 412 >>[i], <<>> >>)]
       /\ \A i \in 1..5 : << 20, 425, 16, 36, 412 >>[i] >= PROFILES.v1.min_vertices[ENTITIES[i]]
       /\ \A i \in 1..5, j \in 1..4 :
             read_png_size(fs, PathKey(TexturePath(ENTITIES[i], TEXTURE_CHANNELS[j])))
               = Return(<< 256, 256 >>)

C19_Witness ==
    /\ ValidatedCleanRun
    /\ out.exit = 1
    /\ Len(out.errors) = 4
    /\ \A k \in 1..4 : out.errors[k].kind \in { "missing directory", "missing preset file" }

-----------------------------------------------------------------------------
(* Meshes made by the builders and by transform_mesh and merge_meshes from  *)
(* builder output only: a builder call makes the first mesh, components     *)
(* are added to it, one is placed, all are merged                           *)

ComposeInit == MeshIdle /\ NoiseIdle /\ FilesIdle

\* the first mesh is the result of a builder call
FirstBox == parts = <<>> /\ BuildBox
FirstOctahedron == parts = <<>> /\ BuildOctahedron
FirstUvSphere == parts = <<>> /\ BuildUvSphere
FirstPrism == parts = <<>> /\ BuildPrism

ComposeNext ==
    \/ FirstBox
    \/ FirstOctahedron
    \/ FirstUvSphere
    \/ FirstPrism
    \/ AddComponent
    \/ Transform
    \/ Merge

SpecCompose == ComposeInit /\ [][ComposeNext]_vars

\* the Mesh invariant
MeshInvariant(mesh) == Len(mesh.indices) % 3 = 0 /\ IndexInRange(mesh)

\* C14: every mesh a builder returns (build_uv_sphere with segments >= 1,
\* build_prism with sides >= 1) and every mesh made from builder results by
\* transform_mesh and merge_meshes, in any order, keeps the Mesh invariant:
\* the number of indices is a multiple of 3 and every index is at least 0
\* and less than the number of vertices.
C14_MeshInvariant ==
    /\ MeshInvariant(call.ret)
    /\ \A i \in 1..Len(parts) : MeshInvariant(parts[i])

\* a merge of three meshes, one of them placed before, one a prism of a
\* single side or a sphere of a single segment; the greatest index of the
\* result is that of its last vertex
C14_Witness ==
    /\ call.fn = "merge_meshes"
    /\ Len(call.args[1]) = 3
    /\ nxf > 0
    /\ Len(call.args[1][1].vertices) = 4
    /\ Len(call.ret.vertices) > 4
    /\ \E k \in 1..Len(call.ret.indices) : call.ret.indices[k] = Len(call.ret.vertices) - 1

-----------------------------------------------------------------------------
(* The document and the buffer of the last write_gltf call, read back from  *)
(* the files                                                                *)

WrittenDoc == json_loads(fs, PathKey(wrote.path))
WrittenBin == fs[PathKey(Path(wrote.path.parent, wrote.path.stem, ".bin"))]
\* the number of bytes of a file of cells
FileSize(cells) ==
    4 * Cardinality({ k \in 1..Len(cells) : cells[k].c = "f32" })
      + Cardinality({ k \in 1..Len(cells) : cells[k].c = "byte" })
Item(container, name, i) == GetItem(GetItem(container, JStr(name)), JInt(i))
Field(object, name) == GetItem(object, JStr(name))
Entries(container, name) == GetItem(container, JStr(name))

\* C15: in the files write_gltf leaves for V vertices and I indices there
\* are four buffer views, for positions, normals, texture coordinates and
\* indices in this order, each starting at or after the end of the one
\* before; the offsets of the first three are multiples of 4 and that of
\* the index view a multiple of 2; the lengths are 12*V, 12*V, 8*V and 2*I;
\* and the byteLength of the buffer is the end of the index view and the
\* number of bytes of the .bin file.
C15_BufferViews ==
    wrote.fn = "write_gltf"
    => \E doc \in { WrittenDoc } :
         LET V == Len(wrote.vertices)
             I == Len(wrote.indices)
             offset(i) == Field(Item(doc, "bufferViews", i), "byteOffset")
             length(i) == Field(Item(doc, "bufferViews", i), "byteLength")
         IN  /\ Entries(doc, "bufferViews").j = "arr" /\ Len(Entries(doc, "bufferViews").a) = 4
             /\ \A i \in 0..3 : offset(i).j = "int" /\ length(i).j = "int"
             /\ << length(0).n, length(1).n, length(2).n, length(3).n >> = << 12 * V, 12 * V, 8 * V, 2 * I >>
             /\ offset(0).n >= 0
             /\ \A i \in 0..2 : offset(i).n + length(i).n <= offset(i + 1).n
             /\ \A i \in 0..2 : offset(i).n % 4 = 0
             /\ offset(3).n % 2 = 0
             /\ << Field(Item(doc, "bufferViews", 0), "target"), Field(Item(doc, "bufferViews", 3), "target") >>
                  = << JInt(34962), JInt(34963) >>
             /\ Len(Entries(doc, "buffers").a) = 1
             /\ Field(Item(doc, "buffers", 0), "byteLength") = JInt(offset(3).n + length(3).n)
             /\ FileSize(WrittenBin.cells) = offset(3).n + length(3).n
             /\ \A k \in 1..I : ReadU16(WrittenBin.cells, offset(3).n + 2 * (k - 1)) = wrote.indices[k]

\* the agent mesh was written: 20 vertices, so the index view starts at
\* byte 640
C15_Witness ==
    /\ wrote.fn = "write_gltf" /\ Len(wrote.vertices) = 20
    /\ out.fn = "write_gltf" /\ ~ out.raised
    /\ Field(Item(WrittenDoc, "bufferViews", 3), "byteOffset") = JInt(640)
    /\ Field(Item(WrittenDoc, "bufferViews", 2), "byteLength") = JInt(160)

\* C16: in the document write_gltf leaves, accessor i reads buffer view i
\* (i = 0..3); the position, normal and texture coordinate accessors have
\* count V and the index accessor has count I, min the least and max the
\* greatest index of the mesh; there is one mesh with one primitive, whose
\* POSITION, NORMAL, TEXCOORD_0 and indices are the accessors 0, 1, 2 and 3;
\* and there is one buffer, whose uri is <stem>.bin.
C16_Accessors ==
    wrote.fn = "write_gltf"
    => \E doc \in { WrittenDoc } :
         LET V == Len(wrote.vertices)
             I == Len(wrote.indices)
             index_values == { wrote.indices[k] : k \in 1..I }
             accessor(i) == Item(doc, "accessors", i)
             primitive == Item(Item(doc, "meshes", 0), "primitives", 0)
         IN  /\ Entries(doc, "accessors").j = "arr" /\ Len(Entries(doc, "accessors").a) = 4
             /\ \A i \in 0..3 : Field(accessor(i), "bufferView") = JInt(i)
             /\ \A i \in 0..2 : Field(accessor(i), "count") = JInt(V)
             /\ Field(accessor(3), "count") = JInt(I)
             /\ Field(accessor(3), "min") = JArr(<< JInt(Min(index_values)) >>)
             /\ Field(accessor(3), "max") = JArr(<< JInt(Max(index_values)) >>)
             /\ Len(Entries(doc, "meshes").a) = 1
             /\ Len(Entries(Item(doc, "meshes", 0), "primitives").a) = 1
             /\ Field(primitive, "attributes")
                  = JObj(<< << "POSITION", JInt(0) >>, << "NORMAL", JInt(1) >>, << "TEXCOORD_0", JInt(2) >> >>)
             /\ Field(primitive, "indices") = JInt(3)
             /\ Entries(doc, "buffers") = JArr(<< JObj(<< << "uri", JStr(wrote.path.stem \o ".bin") >>,
                                                        << "byteLength", JInt(32 * V + 2 * I) >> >>) >>)

\* the one-triangle mesh was written to the v2 path: its index accessor
\* declares 3 indices from 0 to 2 and its buffer is agent_industrial_v2.bin
C16_Witness ==
    /\ wrote.fn = "write_gltf" /\ wrote.path = MeshPath("agent", PROFILES.v2)
    /\ wrote.indices = << 0, 1, 2 >>
    /\ Field(Item(WrittenDoc, "accessors", 3), "max") = JArr(<< JInt(2) >>)
    /\ Field(Item(WrittenDoc, "buffers", 0), "uri") = JStr("agent_industrial_v2.bin")

-----------------------------------------------------------------------------
(* The bytes write_png wrote, taken apart as a reader of the file would     *)

\* the bytes from offset (counted from 0) on, n of them
Slice(data, offset, n) == SubSeq(data, offset + 1, offset + n)
\* the chunk that starts at offset: its length field, type, payload and
\* checksum, and the offset of what follows it
ChunkAt(data, offset) ==
    LET length == UnpackU32(Slice(data, offset, 4))
    IN  [ length |-> length,
          type |-> Slice(data, offset + 4, 4),
          payload |-> Slice(data, offset + 8, length),
          crc |-> Slice(data, offset + 8 + length, 4),
          next |-> offset + 12 + length ]
\* zlib.decompress of a stream made of one stored block: the 2-byte
\* header, the block (final bit, LEN, its complement, LEN bytes), Adler-32
Inflated(stream) ==
    LET length == stream[4] + 256 * stream[5]
    IN  [ ok |-> /\ Len(stream) = 11 + length
                 /\ stream[1] = 120 /\ stream[3] = 1
                 /\ stream[6] = 255 - stream[4] /\ stream[7] = 255 - stream[5]
                 /\ Slice(stream, 7 + length, 4) = PackWord(adler32(Slice(stream, 7, length))),
          raw |-> Slice(stream, 7, length) ]
\* height rows from the top, each the filter byte 0 and then R, G, B of
\* pixel_fn(x, y) for x from 0
ScanLines(fn, width, height) ==
    IF height = 0 THEN <<>>
    ELSE [ k \in 1..(height * (1 + 3 * width)) |->
             LET y == (k - 1) \div (1 + 3 * width)
                 p == (k - 1) % (1 + 3 * width)
             IN  IF p = 0 THEN 0 ELSE pixel_fn(fn, (p - 1) \div 3, y)[((p - 1) % 3) + 1] ]

\* C17: a file write_png wrote is the 8 signature bytes and then three
\* chunks and nothing more: IHDR, one IDAT, IEND.  Each chunk is its
\* payload length (4 bytes, big-endian), its type, the payload and the
\* CRC-32 of type and payload.  The IHDR payload is width, height, 8, 2, 0,
\* 0, 0; the IDAT payload inflates to height rows from the top, each 0
\* followed by R, G, B of pixel_fn(x, y) for x = 0..width-1; the IEND
\* payload is empty.
C17_PngStructure ==
    (out.fn = "write_png" /\ ~ out.raised)
    => \E data \in { fs[out.path].b } :
       \E ihdr \in { ChunkAt(data, 8) } :
       \E idat \in { ChunkAt(data, ihdr.next) } :
       \E iend \in { ChunkAt(data, idat.next) } :
         /\ Slice(data, 0, 8) = << 137, 80, 78, 71, 13, 10, 26, 10 >>
         /\ << ihdr.type, idat.type, iend.type >>
              = << << 73, 72, 68, 82 >>, << 73, 68, 65, 84 >>, << 73, 69, 78, 68 >> >>
         /\ iend.next = Len(data)
         /\ \A c \in { ihdr, idat, iend } :
               /\ Len(c.payload) = c.length
               /\ c.crc = PackWord(crc32(c.type \o c.payload))
         /\ ihdr.length = 13
         /\ UnpackU32(Slice(ihdr.payload, 0, 4)) = wrote.width
         /\ UnpackU32(Slice(ihdr.payload, 4, 4)) = wrote.height
         /\ Slice(ihdr.payload, 8, 5) = << 8, 2, 0, 0, 0 >>
         /\ Inflated(idat.payload).ok
         /\ Inflated(idat.payload).raw = ScanLines(wrote.pixel, wrote.width, wrote.height)
         /\ iend.length = 0

\* an image of two rows of two pixels was written: 14 bytes of rows
C17_Witness ==
    /\ wrote.fn = "write_png" /\ wrote.pixel = "coords"
    /\ wrote.width = 2 /\ wrote.height = 2
    /\ out.fn = "write_png" /\ ~ out.raised
    /\ Inflated(ChunkAt(fs[out.path].b, 33).payload).raw
         = << 0, 1, 1, 7, 2, 1, 7, 0, 1, 2, 7, 2, 2, 7 >>

=============================================================================
